---- MODULE Spec2Model ----
(***************************************************************************)
(* A model of the scripture ingestion scripts: the text cleaner, the       *)
(* reference parser and alias table (fetch_kjv_txt.py), the corpus builder *)
(* (parse_kjv_text), the fetch orchestrators (fetch_bst_bible.py, main.py) *)
(* the chapter patch (retry_chapter), the two script converters            *)
(* (convert_to_simplified.py, main.py) and the vector job                  *)
(* (generate_vectors.py).                                                  *)
(*                                                                         *)
(* A Python str is a sequence of one-character strings, a dict a function, *)
(* a list a sequence.  A file is the document being written to it and the *)
(* number of pieces of it that json.dump has written so far.  For            *)
(* generate_vectors.py pc, arg and the locals in job are kept per run, and *)
(* disk is the committed content of the database.                          *)
(***************************************************************************)
EXTENDS Integers, Sequences, FiniteSets, TLC

VARIABLES
  pc,            \* position of the running script
  arg,           \* argument of the function under evaluation
  ret,           \* the values it returned, in call order
  stream,        \* lines of the text file read so far (parse_kjv_text)
  books_dict,    \* parse_kjv_text: book number -> chapter number -> verses
  output_data,   \* the document being built or patched
  disk,          \* content of the output file
  prior,         \* content of the output file when the run started
  job,           \* locals of the running orchestrator or patch
  history        \* what the run has done so far, for stating the properties

vars == <<pc, arg, ret, stream, books_dict, output_data, disk, prior, job, history>>

(***************************************************************************)
(* Characters and Python's str methods                                     *)
(***************************************************************************)
Digits == {"0", "1", "2", "3", "4", "5", "6", "7", "8", "9"}

LowerLetters == {"a", "b", "c", "d", "e", "f", "g", "h", "i", "j", "k", "l", "m", "n", "o", "p", "q", "r", "s", "t", "u", "v", "w", "x", "y", "z"}

UPPER == <<"A", "B", "C", "D", "E", "F", "G", "H", "I", "J", "K", "L", "M", "N", "O", "P", "Q", "R", "S", "T", "U", "V", "W", "X", "Y", "Z">>

LOWER == <<"a", "b", "c", "d", "e", "f", "g", "h", "i", "j", "k", "l", "m", "n", "o", "p", "q", "r", "s", "t", "u", "v", "w", "x", "y", "z">>

\* What \s matches and str.strip removes, among the characters of the model.
Whitespace == {" ", "\t"}

IsDigit(c) == c \in Digits

IsSpace(c) == c \in Whitespace

Range(s) == {s[i] : i \in 1..Len(s)}

Min(S) == CHOOSE x \in S : \A y \in S : x <= y

LowerChar(c) ==
  IF \E i \in 1..Len(UPPER) : UPPER[i] = c
  THEN LOWER[CHOOSE i \in 1..Len(UPPER) : UPPER[i] = c]
  ELSE c

\* str.lower
RECURSIVE Lower(_)
Lower(s) == IF s = <<>> THEN <<>> ELSE <<LowerChar(Head(s))>> \o Lower(Tail(s))

RECURSIVE LStrip(_)
LStrip(s) == IF s # <<>> /\ IsSpace(Head(s)) THEN LStrip(Tail(s)) ELSE s

RECURSIVE RStrip(_)
RStrip(s) ==
  IF s # <<>> /\ IsSpace(s[Len(s)]) THEN RStrip(SubSeq(s, 1, Len(s) - 1)) ELSE s

\* str.strip
Strip(s) == RStrip(LStrip(s))

\* str.replace(c, "")
Remove(s, c) == SelectSeq(s, LAMBDA x : x # c)

\* length of the run of digits (of whitespace) s starts with
RECURSIVE DigitRun(_)
DigitRun(s) == IF s # <<>> /\ IsDigit(Head(s)) THEN 1 + DigitRun(Tail(s)) ELSE 0

RECURSIVE WsRun(_)
WsRun(s) == IF s # <<>> /\ IsSpace(Head(s)) THEN 1 + WsRun(Tail(s)) ELSE 0

RECURSIVE WordRun(_)
WordRun(s) == IF s # <<>> /\ ~IsSpace(Head(s)) THEN 1 + WordRun(Tail(s)) ELSE 0

Drop(s, n) == SubSeq(s, n + 1, Len(s))

\* str.split(): the words between runs of whitespace
RECURSIVE Split(_)
Split(s) ==
  LET t == LStrip(s)
      n == WordRun(t)
  IN IF t = <<>> THEN <<>> ELSE <<SubSeq(t, 1, n)>> \o Split(Drop(t, n))

\* sep.join(words)
RECURSIVE Join(_, _)
Join(words, sep) ==
  IF words = <<>> THEN <<>>
  ELSE IF Len(words) = 1 THEN words[1]
  ELSE words[1] \o sep \o Join(Tail(words), sep)

\* int(s) of a string of digits
DigitValue(c) == CHOOSE n \in 0..9 : <<"0", "1", "2", "3", "4", "5", "6", "7", "8", "9">>[n + 1] = c

RECURSIVE ParseInt(_)
ParseInt(s) ==
  IF s = <<>> THEN 0
  ELSE 10 * ParseInt(SubSeq(s, 1, Len(s) - 1)) + DigitValue(s[Len(s)])

(***************************************************************************)
(* Text cleaner: clean_verse_text (fetch_bst_bible.py)                     *)
(***************************************************************************)
\* re.sub(r'\s+', ' ', s)
RECURSIVE CollapseWs(_)
CollapseWs(s) ==
  IF s = <<>> THEN <<>>
  ELSE IF IsSpace(Head(s)) THEN <<" ">> \o CollapseWs(LStrip(s))
  ELSE <<Head(s)>> \o CollapseWs(Tail(s))

\* re.sub(r'\[[a-z]\]', '', s): leftmost matches, left to right, in one pass
RECURSIVE SubLetterMarker(_)
SubLetterMarker(s) ==
  IF s = <<>> THEN <<>>
  ELSE IF Len(s) >= 3 /\ s[1] = "[" /\ s[2] \in LowerLetters /\ s[3] = "]"
       THEN SubLetterMarker(Drop(s, 3))
  ELSE <<Head(s)>> \o SubLetterMarker(Tail(s))

\* re.sub(r'\[\d+\]', '', s)
RECURSIVE SubDigitMarker(_)
SubDigitMarker(s) ==
  IF s = <<>> THEN <<>>
  ELSE LET n == DigitRun(Tail(s))
       IN IF s[1] = "[" /\ n >= 1 /\ Len(s) >= n + 2 /\ s[n + 2] = "]"
          THEN SubDigitMarker(Drop(s, n + 2))
          ELSE <<Head(s)>> \o SubDigitMarker(Tail(s))

clean_verse_text(text) == Strip(SubDigitMarker(SubLetterMarker(CollapseWs(text))))

(***************************************************************************)
(* Canonical book list and alias table (fetch_kjv_txt.py)                  *)
(***************************************************************************)
\* The same 66 entries, with a slug each, are BOOKS of fetch_bst_bible.py.
BOOKS ==
  <<
    [number |-> 1, name |-> <<"G","e","n","e","s","i","s">>, abbr |-> "Gen", chapters |-> 50],
    [number |-> 2, name |-> <<"E","x","o","d","u","s">>, abbr |-> "Exod", chapters |-> 40],
    [number |-> 3, name |-> <<"L","e","v","i","t","i","c","u","s">>, abbr |-> "Lev", chapters |-> 27],
    [number |-> 4, name |-> <<"N","u","m","b","e","r","s">>, abbr |-> "Num", chapters |-> 36],
    [number |-> 5, name |-> <<"D","e","u","t","e","r","o","n","o","m","y">>, abbr |-> "Deut", chapters |-> 34],
    [number |-> 6, name |-> <<"J","o","s","h","u","a">>, abbr |-> "Josh", chapters |-> 24],
    [number |-> 7, name |-> <<"J","u","d","g","e","s">>, abbr |-> "Judg", chapters |-> 21],
    [number |-> 8, name |-> <<"R","u","t","h">>, abbr |-> "Ruth", chapters |-> 4],
    [number |-> 9, name |-> <<"1"," ","S","a","m","u","e","l">>, abbr |-> "1Sam", chapters |-> 31],
    [number |-> 10, name |-> <<"2"," ","S","a","m","u","e","l">>, abbr |-> "2Sam", chapters |-> 24],
    [number |-> 11, name |-> <<"1"," ","K","i","n","g","s">>, abbr |-> "1Kgs", chapters |-> 22],
    [number |-> 12, name |-> <<"2"," ","K","i","n","g","s">>, abbr |-> "2Kgs", chapters |-> 25],
    [number |-> 13, name |-> <<"1"," ","C","h","r","o","n","i","c","l","e","s">>, abbr |-> "1Chr", chapters |-> 29],
    [number |-> 14, name |-> <<"2"," ","C","h","r","o","n","i","c","l","e","s">>, abbr |-> "2Chr", chapters |-> 36],
    [number |-> 15, name |-> <<"E","z","r","a">>, abbr |-> "Ezra", chapters |-> 10],
    [number |-> 16, name |-> <<"N","e","h","e","m","i","a","h">>, abbr |-> "Neh", chapters |-> 13],
    [number |-> 17, name |-> <<"E","s","t","h","e","r">>, abbr |-> "Esth", chapters |-> 10],
    [number |-> 18, name |-> <<"J","o","b">>, abbr |-> "Job", chapters |-> 42],
    [number |-> 19, name |-> <<"P","s","a","l","m","s">>, abbr |-> "Ps", chapters |-> 150],
    [number |-> 20, name |-> <<"P","r","o","v","e","r","b","s">>, abbr |-> "Prov", chapters |-> 31],
    [number |-> 21, name |-> <<"E","c","c","l","e","s","i","a","s","t","e","s">>, abbr |-> "Eccl", chapters |-> 12],
    [number |-> 22, name |-> <<"S","o","n","g"," ","o","f"," ","S","o","l","o","m","o","n">>, abbr |-> "Song", chapters |-> 8],
    [number |-> 23, name |-> <<"I","s","a","i","a","h">>, abbr |-> "Isa", chapters |-> 66],
    [number |-> 24, name |-> <<"J","e","r","e","m","i","a","h">>, abbr |-> "Jer", chapters |-> 52],
    [number |-> 25, name |-> <<"L","a","m","e","n","t","a","t","i","o","n","s">>, abbr |-> "Lam", chapters |-> 5],
    [number |-> 26, name |-> <<"E","z","e","k","i","e","l">>, abbr |-> "Ezek", chapters |-> 48],
    [number |-> 27, name |-> <<"D","a","n","i","e","l">>, abbr |-> "Dan", chapters |-> 12],
    [number |-> 28, name |-> <<"H","o","s","e","a">>, abbr |-> "Hos", chapters |-> 14],
    [number |-> 29, name |-> <<"J","o","e","l">>, abbr |-> "Joel", chapters |-> 3],
    [number |-> 30, name |-> <<"A","m","o","s">>, abbr |-> "Amos", chapters |-> 9],
    [number |-> 31, name |-> <<"O","b","a","d","i","a","h">>, abbr |-> "Obad", chapters |-> 1],
    [number |-> 32, name |-> <<"J","o","n","a","h">>, abbr |-> "Jonah", chapters |-> 4],
    [number |-> 33, name |-> <<"M","i","c","a","h">>, abbr |-> "Mic", chapters |-> 7],
    [number |-> 34, name |-> <<"N","a","h","u","m">>, abbr |-> "Nah", chapters |-> 3],
    [number |-> 35, name |-> <<"H","a","b","a","k","k","u","k">>, abbr |-> "Hab", chapters |-> 3],
    [number |-> 36, name |-> <<"Z","e","p","h","a","n","i","a","h">>, abbr |-> "Zeph", chapters |-> 3],
    [number |-> 37, name |-> <<"H","a","g","g","a","i">>, abbr |-> "Hag", chapters |-> 2],
    [number |-> 38, name |-> <<"Z","e","c","h","a","r","i","a","h">>, abbr |-> "Zech", chapters |-> 14],
    [number |-> 39, name |-> <<"M","a","l","a","c","h","i">>, abbr |-> "Mal", chapters |-> 4],
    [number |-> 40, name |-> <<"M","a","t","t","h","e","w">>, abbr |-> "Matt", chapters |-> 28],
    [number |-> 41, name |-> <<"M","a","r","k">>, abbr |-> "Mark", chapters |-> 16],
    [number |-> 42, name |-> <<"L","u","k","e">>, abbr |-> "Luke", chapters |-> 24],
    [number |-> 43, name |-> <<"J","o","h","n">>, abbr |-> "John", chapters |-> 21],
    [number |-> 44, name |-> <<"A","c","t","s">>, abbr |-> "Acts", chapters |-> 28],
    [number |-> 45, name |-> <<"R","o","m","a","n","s">>, abbr |-> "Rom", chapters |-> 16],
    [number |-> 46, name |-> <<"1"," ","C","o","r","i","n","t","h","i","a","n","s">>, abbr |-> "1Cor", chapters |-> 16],
    [number |-> 47, name |-> <<"2"," ","C","o","r","i","n","t","h","i","a","n","s">>, abbr |-> "2Cor", chapters |-> 13],
    [number |-> 48, name |-> <<"G","a","l","a","t","i","a","n","s">>, abbr |-> "Gal", chapters |-> 6],
    [number |-> 49, name |-> <<"E","p","h","e","s","i","a","n","s">>, abbr |-> "Eph", chapters |-> 6],
    [number |-> 50, name |-> <<"P","h","i","l","i","p","p","i","a","n","s">>, abbr |-> "Phil", chapters |-> 4],
    [number |-> 51, name |-> <<"C","o","l","o","s","s","i","a","n","s">>, abbr |-> "Col", chapters |-> 4],
    [number |-> 52, name |-> <<"1"," ","T","h","e","s","s","a","l","o","n","i","a","n","s">>, abbr |-> "1Thess", chapters |-> 5],
    [number |-> 53, name |-> <<"2"," ","T","h","e","s","s","a","l","o","n","i","a","n","s">>, abbr |-> "2Thess", chapters |-> 3],
    [number |-> 54, name |-> <<"1"," ","T","i","m","o","t","h","y">>, abbr |-> "1Tim", chapters |-> 6],
    [number |-> 55, name |-> <<"2"," ","T","i","m","o","t","h","y">>, abbr |-> "2Tim", chapters |-> 4],
    [number |-> 56, name |-> <<"T","i","t","u","s">>, abbr |-> "Titus", chapters |-> 3],
    [number |-> 57, name |-> <<"P","h","i","l","e","m","o","n">>, abbr |-> "Phlm", chapters |-> 1],
    [number |-> 58, name |-> <<"H","e","b","r","e","w","s">>, abbr |-> "Heb", chapters |-> 13],
    [number |-> 59, name |-> <<"J","a","m","e","s">>, abbr |-> "Jas", chapters |-> 5],
    [number |-> 60, name |-> <<"1"," ","P","e","t","e","r">>, abbr |-> "1Pet", chapters |-> 5],
    [number |-> 61, name |-> <<"2"," ","P","e","t","e","r">>, abbr |-> "2Pet", chapters |-> 3],
    [number |-> 62, name |-> <<"1"," ","J","o","h","n">>, abbr |-> "1John", chapters |-> 5],
    [number |-> 63, name |-> <<"2"," ","J","o","h","n">>, abbr |-> "2John", chapters |-> 1],
    [number |-> 64, name |-> <<"3"," ","J","o","h","n">>, abbr |-> "3John", chapters |-> 1],
    [number |-> 65, name |-> <<"J","u","d","e">>, abbr |-> "Jude", chapters |-> 1],
    [number |-> 66, name |-> <<"R","e","v","e","l","a","t","i","o","n">>, abbr |-> "Rev", chapters |-> 22]
  >>

\* Optional[int]: book numbers are 1..66, so 0 is free to stand for None.
None == 0

\* d.get(k)
DictGet(d, k) == IF k \in DOMAIN d THEN d[k] ELSE None

\* The dict that a sequence of assignments d[key] = value, each a pair
\* <<key, value>>, builds: a later assignment to a key replaces the earlier one.
DictOf(assignments) ==
  LET n == Len(assignments)
      Last(k) == CHOOSE i \in 1..n :
                   /\ assignments[i][1] = k
                   /\ \A j \in (i + 1)..n : assignments[j][1] # k
  IN [k \in {assignments[i][1] : i \in 1..n} |-> assignments[Last(k)][2]]

\* one pass of the loop with the exact match only
BookNameExact(book) == << <<Lower(book.name), book.number>> >>

\* the assignments of one pass of the loop "for book in BOOKS"
BookNameAssignments(book) ==
  LET name == book.name
      plain == << <<Lower(name), book.number>>,
                  <<Lower(Remove(name, " ")), book.number>> >>
  IN IF " " \in Range(name) /\ IsDigit(name[1])
     THEN LET num_part == Split(name)[1]
              name_part == Join(Tail(Split(name)), <<" ">>)
          IN plain \o << <<Lower(num_part \o <<" ">> \o name_part), book.number>>,
                         <<Lower(num_part \o name_part), book.number>> >>
     ELSE plain

RECURSIVE GeneratedAssignments(_)
GeneratedAssignments(n) ==
  IF n = 0 THEN <<>>
  ELSE GeneratedAssignments(n - 1) \o BookNameAssignments(BOOKS[n])

\* the special cases assigned after the loop
SpecialCases ==
  << <<<<"p","s","a","l","m">>, 19>>,
     <<<<"s","o","n","g"," ","o","f"," ","s","o","n","g","s">>, 22>>,
     <<<<"s","o","n","g"," ","o","f"," ","s","o","l","o","m","o","n">>, 22>> >>

BOOK_NAME_MAP == DictOf(GeneratedAssignments(Len(BOOKS)) \o SpecialCases)

(***************************************************************************)
(* Reference parser: parse_book_name (fetch_kjv_txt.py)                    *)
(***************************************************************************)
\* (\d+):(\d+) at the start of s; AtEnd asks for the closing $ as well
ChapterVerseAt(s, AtEnd) ==
  LET d1 == DigitRun(s)
      t == Drop(s, d1)
      d2 == IF t = <<>> THEN 0 ELSE DigitRun(Tail(t))
  IN /\ d1 >= 1
     /\ t # <<>>
     /\ Head(t) = ":"
     /\ d2 >= 1
     /\ AtEnd => Len(t) = d2 + 1

\* re.match(r'^([^0-9]+?)\s+(\d+):(\d+)', text) with group 1 = text[1..i]
BookNameMatch(text, i) ==
  /\ i >= 1
  /\ i < Len(text)
  /\ \A k \in 1..i : ~IsDigit(text[k])
  /\ LET rest == Drop(text, i)
     IN WsRun(rest) >= 1 /\ ChapterVerseAt(Drop(rest, WsRun(rest)), FALSE)

parse_book_name(text) ==
  LET M == {i \in 1..Len(text) : BookNameMatch(text, i)}
  IN IF M = {} THEN None
     ELSE LET book_name == Strip(SubSeq(text, 1, Min(M)))   \* +? takes the shortest
          IN DictGet(BOOK_NAME_MAP, Lower(book_name))

(***************************************************************************)
(* Bounds of the model                                                     *)
(***************************************************************************)
MaxStrLen == 6     \* longest text given to clean_verse_text

MaxRefNum == 3     \* largest one-digit chapter or verse number in a reference

\* all strings over alphabet A of length at most n
Strings(A, n) == UNION {[1..k -> A] : k \in 0..n}

DigitChar(n) == <<"0", "1", "2", "3", "4", "5", "6", "7", "8", "9">>[n + 1]

\* str(n)
RECURSIVE ToDigits(_)
ToDigits(n) ==
  IF n < 10 THEN <<DigitChar(n)>> ELSE ToDigits(n \div 10) \o <<DigitChar(n % 10)>>

\* value of the variables a script does not use
Unused == <<>>

(***************************************************************************)
(* clean_verse_text applied to a text, then to its own result              *)
(***************************************************************************)
CleanAlphabet == {"a", "1", " ", "[", "]"}

InitClean ==
  /\ pc = "clean"
  /\ arg \in Strings(CleanAlphabet, MaxStrLen)
  /\ ret = <<>>
  /\ stream = Unused /\ books_dict = Unused /\ output_data = Unused
  /\ disk = Unused /\ prior = Unused /\ job = Unused /\ history = Unused

CleanVerseText ==
  /\ pc = "clean"
  /\ ret' = Append(ret, clean_verse_text(IF ret = <<>> THEN arg ELSE ret[Len(ret)]))
  /\ pc' = IF Len(ret) = 1 THEN "done" ELSE "clean"
  /\ UNCHANGED <<arg, stream, books_dict, output_data, disk, prior, job, history>>

NextClean == CleanVerseText

SpecClean == InitClean /\ [][NextClean]_vars

(***************************************************************************)
(* parse_book_name applied to a reference                                  *)
(***************************************************************************)
Nonexistent == <<"N","o","n","e","x","i","s","t","e","n","t">>

RefNames == {BOOKS[n].name : n \in 1..Len(BOOKS)} \cup {Nonexistent}

RefNums == 1..MaxRefNum \cup {10 * MaxRefNum + 1}

\* "<name> <chapter>:<verse>"
Reference(name, chapter, verse) ==
  name \o <<" ">> \o ToDigits(chapter) \o <<":">> \o ToDigits(verse)

InitRef ==
  /\ pc = "parse"
  /\ arg \in {Reference(name, c, v) : name \in RefNames, c \in RefNums, v \in RefNums}
  /\ ret = <<>>
  /\ stream = Unused /\ books_dict = Unused /\ output_data = Unused
  /\ disk = Unused /\ prior = Unused /\ job = Unused /\ history = Unused

ParseBookName ==
  /\ pc = "parse"
  /\ ret' = <<parse_book_name(arg)>>
  /\ pc' = "parsed"
  /\ UNCHANGED <<arg, stream, books_dict, output_data, disk, prior, job, history>>

NextRef == ParseBookName

SpecRef == InitRef /\ [][NextRef]_vars


(***************************************************************************)
(* Documents and files                                                     *)
(***************************************************************************)
\* d[k] = v
DictPut(d, k, v) == [x \in DOMAIN d \cup {k} |-> IF x = k THEN v ELSE d[x]]

\* sorted(S) of a set of numbers
RECURSIVE Sorted(_)
Sorted(S) == IF S = {} THEN <<>> ELSE <<Min(S)>> \o Sorted(S \ {Min(S)})

\* list.sort(key=number) is stable: x goes behind the entries numbered <= x
RECURSIVE InsertByNumber(_, _)
InsertByNumber(sorted, x) ==
  IF sorted = <<>> THEN <<x>>
  ELSE IF Head(sorted).number <= x.number
       THEN <<Head(sorted)>> \o InsertByNumber(Tail(sorted), x)
       ELSE <<x>> \o sorted

RECURSIVE SortByNumber(_)
SortByNumber(s) ==
  IF s = <<>> THEN <<>>
  ELSE InsertByNumber(SortByNumber(SubSeq(s, 1, Len(s) - 1)), s[Len(s)])

RECURSIVE SumSeq(_)
SumSeq(s) == IF s = <<>> THEN 0 ELSE Head(s) + SumSeq(Tail(s))

\* number of verses of a book, of a sequence of books
BookVerses(book) == SumSeq([i \in 1..Len(book.chapters) |-> Len(book.chapters[i].verses)])

CountVerses(books) == SumSeq([i \in 1..Len(books) |-> BookVerses(books[i])])

\* json.dump(data, f) writes the document piece by piece: the opening with the
\* version, one piece per book, and the closing with any fields after "books".
Chunks(data) == Len(data.books) + 2

NoFile == [exists |-> FALSE]

\* open(path, 'w'): the file exists and is empty
Truncated(data) == [exists |-> TRUE, data |-> data, written |-> 0]

\* a file json.dump finished
Complete(data) == [exists |-> TRUE, data |-> data, written |-> Chunks(data)]

\* json.load succeeds on a file that holds all of one document
Loadable(file) == file.exists /\ file.written = Chunks(file.data)

(***************************************************************************)
(* Corpus builder: parse_kjv_text and save_json (fetch_kjv_txt.py)         *)
(***************************************************************************)
StartsWith(s, p) == Len(s) >= Len(p) /\ SubSeq(s, 1, Len(p)) = p

\* re.match(r'^(.+?)\s+(\d+):(\d+)$', reference) with group 1 = reference[1..i]
ReferenceMatch(reference, i) ==
  /\ i >= 1
  /\ i < Len(reference)
  /\ LET rest == Drop(reference, i)
     IN WsRun(rest) >= 1 /\ ChapterVerseAt(Drop(rest, WsRun(rest)), TRUE)

\* BOOK_NAME_MAP.get(name.lower()), then the name without spaces
LookupBook(book_name) ==
  LET book_num == DictGet(BOOK_NAME_MAP, Lower(book_name))
  IN IF book_num # None THEN book_num
     ELSE DictGet(BOOK_NAME_MAP, Lower(Remove(book_name, " ")))

KJV == <<"K","J","V">>

KingJames == <<"K","i","n","g"," ","J","a","m","e","s">>

TextCourtesy == <<"T","e","x","t"," ","c","o","u","r","t","e","s","y">>

\* What one pass of the loop "for line in lines" does with a line: "skip" (one
\* of the continue statements), "unknown" (the warning, then continue) or
\* "verse", the entry it appends.
ParseLine(raw) ==
  LET line == Strip(raw)
      tab == Min({i \in 1..Len(line) : line[i] = "\t"})
      reference == Strip(SubSeq(line, 1, tab - 1))
      verse_text ==
        Strip(CollapseWs(Remove(Remove(Strip(Drop(line, tab)), "["), "]")))
      M == {i \in 1..Len(reference) : ReferenceMatch(reference, i)}
      book_name == Strip(SubSeq(reference, 1, Min(M)))
      numbers == LStrip(Drop(reference, Min(M)))
      chapter_num == ParseInt(SubSeq(numbers, 1, DigitRun(numbers)))
      verse_num == ParseInt(Drop(numbers, DigitRun(numbers) + 1))
  IN IF line = <<>> THEN [kind |-> "skip", why |-> "empty"]
     ELSE IF StartsWith(line, KJV) \/ StartsWith(line, KingJames)
             \/ StartsWith(line, TextCourtesy)
          THEN [kind |-> "skip", why |-> "header"]
     ELSE IF "\t" \notin Range(line) THEN [kind |-> "skip", why |-> "no tab"]
     ELSE IF M = {} THEN [kind |-> "skip", why |-> "reference"]
     ELSE IF LookupBook(book_name) = None
          THEN [kind |-> "unknown", book_name |-> book_name, reference |-> reference]
     ELSE [kind |-> "verse", book_num |-> LookupBook(book_name),
           chapter_num |-> chapter_num,
           verse |-> [number |-> verse_num, text |-> verse_text]]

\* book["chapters"][chapter_num].append(verse), the list created when missing
AddVerse(dict, r) ==
  LET chapters == dict[r.book_num]
      verses == IF r.chapter_num \in DOMAIN chapters THEN chapters[r.chapter_num] ELSE <<>>
  IN [dict EXCEPT ![r.book_num] = DictPut(chapters, r.chapter_num, Append(verses, r.verse))]

\* "Convert to final structure": the chapters of book_num, or <<>>
FinalChapters(dict, book_num) ==
  LET nums == Sorted(DOMAIN dict[book_num])
  IN [i \in 1..Len(nums) |->
        [number |-> nums[i], verses |-> SortByNumber(dict[book_num][nums[i]])]]

FinalBook(dict, book_num) ==
  [number |-> BOOKS[book_num].number, name |-> BOOKS[book_num].name,
   abbreviation |-> BOOKS[book_num].abbr, chapters |-> FinalChapters(dict, book_num)]

RECURSIVE FinalBooks(_, _)
FinalBooks(dict, nums) ==
  IF nums = <<>> THEN <<>>
  ELSE (IF FinalChapters(dict, Head(nums)) # <<>>
        THEN <<FinalBook(dict, Head(nums))>> ELSE <<>>)
       \o FinalBooks(dict, Tail(nums))

KjvVersion == [code |-> "KJV", name |-> "King James Version"]

\* Lines of the text file the model reads
MaxLines == 3   \* lines of the text file

KjvTexts == {<<"A">>, <<"[", "C", "]", " ", " ", "D">>, <<"[", " ", "]">>}

KjvNumbers == {1, 2}

Genesis == BOOKS[1].name

FirstSamuel == BOOKS[9].name

VerseLine(name, chapter, verse, text) == Reference(name, chapter, verse) \o <<"\t">> \o text

KjvLines ==
  {VerseLine(Genesis, c, v, <<"A">>) : c \in KjvNumbers, v \in KjvNumbers}
  \cup {VerseLine(Genesis, 1, 2, <<"B">>)}
  \cup {VerseLine(FirstSamuel, 1, 1, t) : t \in KjvTexts}
  \cup {VerseLine(Nonexistent, 1, 1, <<"A">>),
        Genesis \o <<" ", "1", "\t", "A">>,
        Reference(Genesis, 1, 1) \o <<" ", "A">>,
        KJV}

InitKjv ==
  /\ pc = "lines"
  /\ stream = <<>>
  /\ books_dict = [n \in 1..Len(BOOKS) |-> <<>>]
  /\ output_data = [version |-> KjvVersion, books |-> <<>>]
  /\ disk \in {[output |-> NoFile],
               [output |-> Complete([version |-> KjvVersion, books |-> <<>>])]}
  /\ prior = disk
  /\ job = [script |-> "kjv"]
  /\ history = [fetched |-> <<>>, checkpoints |-> <<>>, log |-> <<>>]
  /\ arg = Unused /\ ret = Unused

\* what one pass of the loop gives to log_print: the warning of an unknown book
LineLog(raw) ==
  IF ParseLine(raw).kind = "unknown"
  THEN <<[level |-> "WARNING", book_name |-> ParseLine(raw).book_name,
          reference |-> ParseLine(raw).reference]>>
  ELSE <<>>

\* one pass of the loop over the lines
KjvReadLine ==
  /\ job.script = "kjv"
  /\ pc = "lines"
  /\ Len(stream) < MaxLines
  /\ \E line \in KjvLines :
       /\ stream' = Append(stream, line)
       /\ books_dict' = IF ParseLine(line).kind = "verse"
                        THEN AddVerse(books_dict, ParseLine(line))
                        ELSE books_dict
       /\ history' = [history EXCEPT !.log = @ \o LineLog(line)]
  /\ UNCHANGED <<pc, arg, ret, output_data, disk, prior, job>>

\* the text is at its end: parse_kjv_text builds the document and returns it
KjvConvert ==
  /\ job.script = "kjv"
  /\ pc = "lines"
  /\ output_data' = [output_data EXCEPT
                       !.books = FinalBooks(books_dict, Sorted(DOMAIN books_dict))]
  /\ pc' = "save"
  /\ UNCHANGED <<arg, ret, stream, books_dict, disk, prior, job, history>>

\* save_json: open(output_file, 'w') creates or empties the file
KjvSaveOpen ==
  /\ job.script = "kjv"
  /\ pc = "save"
  /\ disk' = [disk EXCEPT !.output = Truncated(output_data)]
  /\ pc' = "dump"
  /\ UNCHANGED <<arg, ret, stream, books_dict, output_data, prior, job, history>>

\* save_json: json.dump writes the next piece; after the last the file is closed
KjvSaveDump ==
  /\ job.script = "kjv"
  /\ pc = "dump"
  /\ disk' = [disk EXCEPT !.output.written = @ + 1]
  /\ IF disk.output.written + 1 < Chunks(disk.output.data)
     THEN UNCHANGED <<pc, history>>
     ELSE /\ history' = [history EXCEPT !.checkpoints = Append(@, output_data)]
          /\ pc' = "done"
  /\ UNCHANGED <<arg, ret, stream, books_dict, output_data, prior, job>>

\* save_json: open or write raises; the error is logged and the script exits
KjvSaveError ==
  /\ job.script = "kjv"
  /\ pc \in {"save", "dump"}
  /\ pc' = "failed"
  /\ UNCHANGED <<arg, ret, stream, books_dict, output_data, disk, prior, job, history>>

\* main: KeyboardInterrupt ends the script wherever it is
KjvInterrupt ==
  /\ job.script = "kjv"
  /\ pc \in {"lines", "save", "dump"}
  /\ pc' = "interrupted"
  /\ UNCHANGED <<arg, ret, stream, books_dict, output_data, disk, prior, job, history>>

NextKjv ==
  \/ KjvReadLine
  \/ KjvConvert
  \/ KjvSaveOpen
  \/ KjvSaveDump
  \/ KjvSaveError
  \/ KjvInterrupt

SpecKjv == InitKjv /\ [][NextKjv]_vars

(***************************************************************************)
(* Fetch orchestrator of fetch_bst_bible.py: fetch_chapter, fetch_book,    *)
(* fetch_bible                                                             *)
(***************************************************************************)
max_retries == 3

LastBook == 2       \* the runs fetch books among 1..LastBook

MaxChapters == 2    \* chapters fetched per book (a book has up to 150)

\* range(1, book["chapters"] + 1), cut at MaxChapters
ChapterCount(book_number) ==
  IF BOOKS[book_number].chapters < MaxChapters
  THEN BOOKS[book_number].chapters ELSE MaxChapters

\* VERSION_NAMES.get(translation, translation.upper()) and translation.upper()
VersionOf(translation) ==
  CASE translation = "niv" -> [code |-> "NIV", name |-> "New International Version"]
    [] translation = "nkjv" -> [code |-> "NKJV", name |-> "New King James Version"]
    [] translation = "kjv" -> [code |-> "KJV", name |-> "King James Version"]
    [] translation = "esv" -> [code |-> "ESV", name |-> "English Standard Version"]
    [] translation = "nasb" -> [code |-> "NASB", name |-> "New American Standard Bible"]
    [] translation = "nlt" -> [code |-> "NLT", name |-> "New Living Translation"]

\* int(verse_id) succeeds on a string of digits
IsInt(s) == s # <<>> /\ \A i \in 1..Len(s) : IsDigit(s[i])

\* The body of "for div in verse_divs": the verses a page yields, in page
\* order.  A div is its data-verse-id and the text get_text extracts.
RECURSIVE PageVerses(_)
PageVerses(divs) ==
  IF divs = <<>> THEN <<>>
  ELSE LET div == Head(divs)
           verse_text == clean_verse_text(div.text)
       IN (IF IsInt(div.verse_id) /\ verse_text # <<>> /\ Len(verse_text) > 3
           THEN <<[number |-> ParseInt(div.verse_id), text |-> verse_text]>>
           ELSE <<>>)
          \o PageVerses(Tail(divs))

\* One attempt of fetch_chapter: the sorted verses of the page, none on an error
AttemptVerses(response) ==
  IF response.ok THEN SortByNumber(PageVerses(response.divs)) ELSE <<>>

Div(verse_id, text) == [verse_id |-> verse_id, text |-> text]

Alpha == <<"A","l","p","h","a">>

Beta == <<"B","e","t","a"," ","[","a","]","x">>

Gamma == <<"G","a","m","m","a">>

\* verses 2 and 1, out of order
PageAB == [ok |-> TRUE, divs |-> <<Div(<<"2">>, Beta), Div(<<"1">>, Alpha)>>]

\* verse 1 twice
PageDup == [ok |-> TRUE, divs |-> <<Div(<<"1">>, Alpha), Div(<<"1">>, Gamma)>>]

\* one verse
PageC == [ok |-> TRUE, divs |-> <<Div(<<"1">>, Gamma)>>]

\* nothing usable: an id that is no number, a text of two characters, no id
PageNoise ==
  [ok |-> TRUE,
   divs |-> <<Div(<<"x">>, Alpha), Div(<<"1">>, <<"a","b">>), Div(<<>>, Alpha)>>]

\* requests.get or raise_for_status raises
RequestError == [ok |-> FALSE, divs |-> <<>>]

FetchResponses == {PageAB, PageDup, PageNoise, RequestError}

NewBook(book_number) ==
  [number |-> BOOKS[book_number].number, name |-> BOOKS[book_number].name,
   abbreviation |-> BOOKS[book_number].abbr, chapters |-> <<>>]

\* a file an earlier run left
OldDocument ==
  [version |-> VersionOf("niv"),
   books |-> <<[NewBook(2) EXCEPT !.chapters =
                  <<[number |-> 1, verses |-> <<[number |-> 1, text |-> Alpha]>>]>>]>>]

\* books_to_fetch = [b for b in BOOKS if start_from <= b["number"] <= end_at]
BooksToFetch(start_from, end_at) ==
  SelectSeq([n \in 1..Len(BOOKS) |-> BOOKS[n].number],
            LAMBDA n : start_from <= n /\ n <= end_at)

\* a fetch_bible that starts from the books of the output file it finds
InitBstFromFile ==
  /\ pc = "fetch_chapter"
  /\ \E s \in 1..LastBook, e \in 1..LastBook :
       /\ s <= e
       /\ job = [script |-> "bst", translation |-> "niv", start_from |-> s, end_at |-> e,
                 i |-> 1, book_data |-> NewBook(BooksToFetch(s, e)[1]),
                 chapter_num |-> 1, attempt |-> 1, total_verses |-> 0]
  /\ disk \in {[output |-> NoFile], [output |-> Complete(OldDocument)]}
  /\ output_data = IF Loadable(disk.output) THEN disk.output.data
                   ELSE [version |-> VersionOf("niv"), books |-> <<>>]
  /\ prior = disk
  /\ history = [fetched |-> <<>>, checkpoints |-> <<>>, chapters |-> <<>>, failed |-> <<>>]
  /\ arg = Unused /\ ret = Unused /\ stream = Unused /\ books_dict = Unused

InitBst ==
  /\ pc = "fetch_chapter"
  /\ \E s \in 1..LastBook, e \in 1..LastBook :
       /\ s <= e
       /\ job = [script |-> "bst", translation |-> "niv", start_from |-> s, end_at |-> e,
                 i |-> 1, book_data |-> NewBook(BooksToFetch(s, e)[1]),
                 chapter_num |-> 1, attempt |-> 1, total_verses |-> 0]
  /\ output_data = [version |-> VersionOf("niv"), books |-> <<>>]
  /\ disk \in {[output |-> NoFile], [output |-> Complete(OldDocument)]}
  /\ prior = disk
  /\ history = [fetched |-> <<>>, checkpoints |-> <<>>, chapters |-> <<>>, failed |-> <<>>]
  /\ arg = Unused /\ ret = Unused /\ stream = Unused /\ books_dict = Unused

\* history after fetch_chapter returned verses for a chapter at its attempt
\* number attempts: what it returned, and the chapters recorded as failed
ChapterLog(book_number, chapter_num, verses, attempts) ==
  [history EXCEPT
     !.chapters = Append(@, [book |-> book_number, chapter |-> chapter_num,
                             verses |-> verses]),
     !.failed = IF verses = <<>>
                THEN Append(@, [book |-> book_number, chapter |-> chapter_num,
                                attempts |-> attempts])
                ELSE @]

\* a fetch_book that gives the book up at the first chapter without verses
BstAbortBook(verses) ==
  LET book_number == job.book_data.number
      log == ChapterLog(book_number, job.chapter_num, verses, job.attempt)
      book_data == IF verses # <<>>
                   THEN [job.book_data EXCEPT !.chapters =
                           Append(@, [number |-> job.chapter_num, verses |-> verses])]
                   ELSE job.book_data
  IN IF verses # <<>> /\ job.chapter_num < ChapterCount(book_number)
     THEN /\ job' = [job EXCEPT !.book_data = book_data, !.chapter_num = @ + 1,
                                !.attempt = 1]
          /\ history' = log
          /\ UNCHANGED <<pc, output_data>>
     ELSE /\ job' = [job EXCEPT !.book_data = book_data, !.attempt = 1]
          /\ output_data' = IF book_data.chapters # <<>>
                            THEN [output_data EXCEPT !.books = Append(@, book_data)]
                            ELSE output_data
          /\ history' = [log EXCEPT !.fetched = Append(@, book_data)]
          /\ pc' = "save"

\* fetch_book after fetch_chapter returned verses for job.chapter_num, and
\* fetch_bible after fetch_book returned: the values of job, output_data, pc, history
BstAfterChapter(verses) ==
  LET book_number == job.book_data.number
      log == ChapterLog(book_number, job.chapter_num, verses, job.attempt)
      book_data == IF verses # <<>>
                   THEN [job.book_data EXCEPT !.chapters =
                           Append(@, [number |-> job.chapter_num, verses |-> verses])]
                   ELSE job.book_data
  IN IF job.chapter_num < ChapterCount(book_number)
     THEN /\ job' = [job EXCEPT !.book_data = book_data, !.chapter_num = @ + 1,
                                !.attempt = 1]
          /\ history' = log
          /\ UNCHANGED <<pc, output_data>>
     ELSE /\ job' = [job EXCEPT !.book_data = book_data, !.attempt = 1,
                                !.total_verses =
                                  IF book_data.chapters # <<>>
                                  THEN @ + BookVerses(book_data) ELSE @]
          /\ output_data' = IF book_data.chapters # <<>>
                            THEN [output_data EXCEPT !.books = Append(@, book_data)]
                            ELSE output_data
          /\ history' = [log EXCEPT !.fetched = Append(@, book_data)]
          /\ pc' = "save"

\* One pass of the loop "for attempt in range(1, max_retries + 1)" of
\* fetch_chapter; when fetch_chapter returns, fetch_book and fetch_bible go on
\* to the next chapter or to the checkpoint.
BstAttempt ==
  /\ job.script = "bst"
  /\ pc = "fetch_chapter"
  /\ \E response \in FetchResponses :
       LET verses == AttemptVerses(response)
       IN IF verses # <<>> THEN BstAfterChapter(verses)
          ELSE IF job.attempt < max_retries
               THEN /\ job' = [job EXCEPT !.attempt = @ + 1]
                    /\ UNCHANGED <<pc, output_data, history>>
               ELSE BstAfterChapter(<<>>)
  /\ UNCHANGED <<arg, ret, stream, books_dict, disk, prior>>

\* "Save progress after each book": open(output_file, 'w') empties the file
BstSaveOpen ==
  /\ job.script = "bst"
  /\ pc = "save"
  /\ disk' = [disk EXCEPT !.output = Truncated(output_data)]
  /\ pc' = "dump"
  /\ UNCHANGED <<arg, ret, stream, books_dict, output_data, prior, job, history>>

\* json.dump writes the next piece; after the last one the file is closed and
\* the loop of fetch_bible goes on to the next book
BstSaveDump ==
  /\ job.script = "bst"
  /\ pc = "dump"
  /\ disk' = [disk EXCEPT !.output.written = @ + 1]
  /\ IF disk.output.written + 1 < Chunks(disk.output.data)
     THEN UNCHANGED <<pc, job, history>>
     ELSE /\ history' = [history EXCEPT !.checkpoints = Append(@, output_data)]
          /\ IF job.i < Len(BooksToFetch(job.start_from, job.end_at))
             THEN /\ job' = [job EXCEPT
                               !.i = @ + 1,
                               !.book_data =
                                 NewBook(BooksToFetch(job.start_from, job.end_at)[job.i + 1]),
                               !.chapter_num = 1]
                  /\ pc' = "fetch_chapter"
             ELSE /\ pc' = "done"
                  /\ UNCHANGED job
  /\ UNCHANGED <<arg, ret, stream, books_dict, output_data, prior>>

\* open or write raises: main logs the error and exits
BstSaveError ==
  /\ job.script = "bst"
  /\ pc \in {"save", "dump"}
  /\ pc' = "failed"
  /\ UNCHANGED <<arg, ret, stream, books_dict, output_data, disk, prior, job, history>>

\* KeyboardInterrupt: main logs "Progress has been saved" and exits
BstInterrupt ==
  /\ job.script = "bst"
  /\ pc \in {"fetch_chapter", "save", "dump"}
  /\ pc' = "interrupted"
  /\ UNCHANGED <<arg, ret, stream, books_dict, output_data, disk, prior, job, history>>

NextBst ==
  \/ BstAttempt
  \/ BstSaveOpen
  \/ BstSaveDump
  \/ BstSaveError
  \/ BstInterrupt

SpecBst == InitBst /\ [][NextBst]_vars

(***************************************************************************)
(* Fetch orchestrator of main.py: fetch_chapter, fetch_book,               *)
(* convert_to_simplified, fetch_all_books                                  *)
(*                                                                         *)
(* The Chinese characters of main.py are written as named tokens, one per  *)
(* character; "t_x" names a traditional character whose simplified form    *)
(* "s_x" differs from it, "fw_space" the full-width space.                 *)
(***************************************************************************)
\* BOOKS of main.py: the names and short names of the first books (the
\* numbers and chapter counts are those of BOOKS above)
MainNames ==
  << [name |-> <<"t_chuang", "shi", "t_ji">>, short |-> <<"t_chuang">>],
     [name |-> <<"chu", "ai", "ji", "t_ji">>, short |-> <<"chu">>],
     [name |-> <<"li", "wei", "t_ji">>, short |-> <<"li">>],
     [name |-> <<"min", "t_shu", "t_ji">>, short |-> <<"min">>],
     [name |-> <<"shen", "ming", "t_ji">>, short |-> <<"shen">>] >>

MainVersion ==
  [code |-> "CUNP89",
   name |-> <<"xin", "t_biao", "t_dian", "he", "he", "ben", "Shen", "ban">>]

\* converter.convert of opencc 't2s', character by character
ConvertChar(c) ==
  CASE c = "t_chuang" -> "s_chuang"
    [] c = "t_ji" -> "s_ji"
    [] c = "t_shu" -> "s_shu"
    [] c = "t_biao" -> "s_biao"
    [] c = "t_dian" -> "s_dian"
    [] c = "t_guang" -> "s_guang"
    [] OTHER -> c

Convert(s) == [i \in 1..Len(s) |-> ConvertChar(s[i])]

\* str.replace(old, new)
RECURSIVE Replace(_, _, _)
Replace(s, old, new) ==
  IF Len(s) < Len(old) THEN s
  ELSE IF StartsWith(s, old) THEN new \o Replace(Drop(s, Len(old)), old, new)
  ELSE <<Head(s)>> \o Replace(Tail(s), old, new)

\* the four replace calls on a verse text
CleanedText(verse_text) ==
  Replace(Replace(Replace(Replace(verse_text,
    <<" ", "Shen">>, <<"Shen">>),
    <<" ", "Shang", "Di">>, <<"Shang", "Di">>),
    <<"fw_space", "Shen">>, <<"Shen">>),
    <<"fw_space", "Shang", "Di">>, <<"Shang", "Di">>)

\* verse_ref.split(':')
RECURSIVE SplitColon(_)
SplitColon(s) ==
  LET colons == {i \in 1..Len(s) : s[i] = ":"}
  IN IF colons = {} THEN <<s>>
     ELSE <<SubSeq(s, 1, Min(colons) - 1)>> \o SplitColon(Drop(s, Min(colons)))

\* The body of "for row in rows": the verses of a table, in row order.  A row
\* is its number of cells, the text of the first and the text of the second.
RECURSIVE RowVerses(_)
RowVerses(rows) ==
  IF rows = <<>> THEN <<>>
  ELSE LET row == Head(rows)
           parts == SplitColon(row.verse_ref)
       IN (IF /\ row.cols >= 2
              /\ Len(parts) = 2
              /\ IsInt(parts[2])
              /\ row.verse_text # <<>>
           THEN <<[number |-> ParseInt(parts[2]), text |-> CleanedText(row.verse_text)]>>
           ELSE <<>>)
          \o RowVerses(Tail(rows))

\* fetch_chapter of main.py: none on an error or a page without a table
MainFetchChapter(response) ==
  IF response.ok /\ response.table THEN RowVerses(response.rows) ELSE <<>>

Row(verse_ref, verse_text) == [cols |-> 2, verse_ref |-> verse_ref, verse_text |-> verse_text]

TextOne == <<"qi", "chu", " ", "Shen", "t_chuang", "zao">>

TextTwo == <<"di", "shi", "fw_space", "Shang", "Di", "t_guang">>

\* verses 2 and 1, out of order
RowsAB ==
  [ok |-> TRUE, table |-> TRUE,
   rows |-> <<Row(<<"1", ":", "2">>, TextTwo), Row(<<"1", ":", "1">>, TextOne)>>]

\* verse 1 only
RowsC == [ok |-> TRUE, table |-> TRUE, rows |-> <<Row(<<"1", ":", "1">>, TextTwo)>>]

\* nothing usable: one cell, no colon, no number, no text
RowsNoise ==
  [ok |-> TRUE, table |-> TRUE,
   rows |-> <<[cols |-> 1, verse_ref |-> <<"1", ":", "1">>, verse_text |-> TextOne],
              Row(<<"1">>, TextOne), Row(<<"1", ":", "x">>, TextOne),
              Row(<<"1", ":", "1">>, <<>>)>>]

NoTable == [ok |-> TRUE, table |-> FALSE, rows |-> <<>>]

NetworkError == [ok |-> FALSE, table |-> FALSE, rows |-> <<>>]

MainResponses == {RowsAB, RowsC, RowsNoise, NoTable, NetworkError}

MainNewBook(book_number) ==
  [number |-> BOOKS[book_number].number, name |-> MainNames[book_number].name,
   abbreviation |-> MainNames[book_number].short, chapters |-> <<>>]

SimplifiedVerse(verse) == [number |-> verse.number, text |-> Convert(verse.text)]

SimplifiedChapter(chapter) ==
  [number |-> chapter.number,
   verses |-> [i \in 1..Len(chapter.verses) |-> SimplifiedVerse(chapter.verses[i])]]

SimplifiedBook(book) ==
  [number |-> book.number, name |-> Convert(book.name),
   abbreviation |-> Convert(book.abbreviation),
   chapters |-> [i \in 1..Len(book.chapters) |-> SimplifiedChapter(book.chapters[i])]]

\* convert_to_simplified of main.py
convert_to_simplified(data) ==
  [version |-> [code |-> data.version.code \o "-SC",
                name |-> Convert(data.version.name) \o <<" ", "(", "jian", "ti", ")">>],
   books |-> [i \in 1..Len(data.books) |-> SimplifiedBook(data.books[i])],
   total_books |-> data.total_books,
   total_verses |-> data.total_verses]

InitMain ==
  /\ pc = "fetch_chapter"
  /\ \E s \in 1..LastBook, e \in 1..LastBook :
       /\ s <= e
       /\ job = [script |-> "main", start_from |-> s, end_at |-> e,
                 i |-> 1, book_data |-> MainNewBook(BooksToFetch(s, e)[1]),
                 chapter_num |-> 1, total_verses |-> 0]
  /\ output_data = [version |-> MainVersion, books |-> <<>>,
                    total_books |-> 0, total_verses |-> 0]
  /\ disk = [output |-> NoFile, simplified |-> NoFile]
  /\ prior = disk
  /\ history = [fetched |-> <<>>, checkpoints |-> <<>>, chapters |-> <<>>, failed |-> <<>>]
  /\ arg = Unused /\ ret = Unused /\ stream = Unused /\ books_dict = Unused

\* fetch_chapter, then fetch_book with its verses, then, after the last chapter
\* of a book, fetch_all_books with the book; after the last book the totals
MainFetchChapterStep ==
  /\ job.script = "main"
  /\ pc = "fetch_chapter"
  /\ \E response \in MainResponses :
       LET verses == MainFetchChapter(response)
           book_data == IF verses # <<>>
                        THEN [job.book_data EXCEPT !.chapters =
                                Append(@, [number |-> job.chapter_num, verses |-> verses])]
                        ELSE job.book_data
           books == IF book_data.chapters # <<>>
                    THEN Append(output_data.books, book_data)
                    ELSE output_data.books
           total_verses == IF book_data.chapters # <<>>
                           THEN job.total_verses + BookVerses(book_data)
                           ELSE job.total_verses
           books_to_fetch == BooksToFetch(job.start_from, job.end_at)
           log == ChapterLog(job.book_data.number, job.chapter_num, verses, 1)
       IN IF job.chapter_num < ChapterCount(job.book_data.number)
          THEN /\ job' = [job EXCEPT !.book_data = book_data, !.chapter_num = @ + 1]
               /\ history' = log
               /\ UNCHANGED <<pc, output_data>>
          ELSE /\ history' = [log EXCEPT !.fetched = Append(@, book_data)]
               /\ IF job.i < Len(books_to_fetch)
                  THEN /\ job' = [job EXCEPT
                                    !.i = @ + 1,
                                    !.book_data = MainNewBook(books_to_fetch[job.i + 1]),
                                    !.chapter_num = 1,
                                    !.total_verses = total_verses]
                       /\ output_data' = [output_data EXCEPT !.books = books]
                       /\ UNCHANGED pc
                  ELSE /\ job' = [job EXCEPT !.book_data = book_data,
                                             !.total_verses = total_verses]
                       /\ output_data' = [output_data EXCEPT
                                            !.books = books,
                                            !.total_books = Len(books),
                                            !.total_verses = total_verses]
                       /\ pc' = "save"
  /\ UNCHANGED <<arg, ret, stream, books_dict, disk, prior>>

\* open(output_file, 'w') empties the file
MainSaveOpen ==
  /\ job.script = "main"
  /\ pc = "save"
  /\ disk' = [disk EXCEPT !.output = Truncated(output_data)]
  /\ pc' = "dump"
  /\ UNCHANGED <<arg, ret, stream, books_dict, output_data, prior, job, history>>

\* json.dump writes the next piece; after the last one the file is closed
MainSaveDump ==
  /\ job.script = "main"
  /\ pc = "dump"
  /\ disk' = [disk EXCEPT !.output.written = @ + 1]
  /\ IF disk.output.written + 1 < Chunks(disk.output.data)
     THEN UNCHANGED <<pc, history>>
     ELSE /\ history' = [history EXCEPT !.checkpoints = Append(@, output_data)]
          /\ pc' = "save_simplified"
  /\ UNCHANGED <<arg, ret, stream, books_dict, output_data, prior, job>>

\* convert_to_simplified(output_data), then open(simplified_file, 'w')
MainSimplifiedOpen ==
  /\ job.script = "main"
  /\ pc = "save_simplified"
  /\ disk' = [disk EXCEPT !.simplified = Truncated(convert_to_simplified(output_data))]
  /\ pc' = "dump_simplified"
  /\ UNCHANGED <<arg, ret, stream, books_dict, output_data, prior, job, history>>

MainSimplifiedDump ==
  /\ job.script = "main"
  /\ pc = "dump_simplified"
  /\ disk' = [disk EXCEPT !.simplified.written = @ + 1]
  /\ pc' = IF disk.simplified.written + 1 < Chunks(disk.simplified.data)
           THEN "dump_simplified" ELSE "done"
  /\ UNCHANGED <<arg, ret, stream, books_dict, output_data, prior, job, history>>

\* open or write raises: main prints the error and exits
MainSaveError ==
  /\ job.script = "main"
  /\ pc \in {"save", "dump", "save_simplified", "dump_simplified"}
  /\ pc' = "failed"
  /\ UNCHANGED <<arg, ret, stream, books_dict, output_data, disk, prior, job, history>>

\* KeyboardInterrupt: main prints that it is saving what it fetched, and exits
MainInterrupt ==
  /\ job.script = "main"
  /\ pc \in {"fetch_chapter", "save", "dump", "save_simplified", "dump_simplified"}
  /\ pc' = "interrupted"
  /\ UNCHANGED <<arg, ret, stream, books_dict, output_data, disk, prior, job, history>>

NextMain ==
  \/ MainFetchChapterStep
  \/ MainSaveOpen
  \/ MainSaveDump
  \/ MainSimplifiedOpen
  \/ MainSimplifiedDump
  \/ MainSaveError
  \/ MainInterrupt

SpecMain == InitMain /\ [][NextMain]_vars

(***************************************************************************)
(* The three scripts that build a document, any one of them running        *)
(***************************************************************************)
InitBuild == InitKjv \/ InitBst \/ InitMain

NextBuild == NextKjv \/ NextBst \/ NextMain

SpecBuild == InitBuild /\ [][NextBuild]_vars

(***************************************************************************)
(* The two fetch orchestrators, either of them running                     *)
(***************************************************************************)
InitFetch == InitBst \/ InitMain

NextFetch == NextBst \/ NextMain

SpecFetch == InitFetch /\ [][NextFetch]_vars

(***************************************************************************)
(* Patch: retry_chapter (fetch_bst_bible.py)                               *)
(***************************************************************************)
MaxPatches == 2     \* invocations of retry_chapter on the same file

HasNumber(seq, number) == \E i \in 1..Len(seq) : seq[i].number = number

\* the entry a loop "for x in seq: if x["number"] == number" reaches first
FirstIndex(seq, number) == Min({i \in 1..Len(seq) : seq[i].number = number})

\* a patch that never looks for the chapter and always adds it
PatchChaptersAppend(chapters, chapter_number, verses) ==
  SortByNumber(Append(chapters, [number |-> chapter_number, verses |-> verses]))

\* "Find or create the chapter"
PatchChapters(chapters, chapter_number, verses) ==
  IF HasNumber(chapters, chapter_number)
  THEN [chapters EXCEPT ![FirstIndex(chapters, chapter_number)].verses = verses]
  ELSE SortByNumber(Append(chapters, [number |-> chapter_number, verses |-> verses]))

\* a patch that adds a missing book at the end and leaves the books as they are
PatchDocumentUnsorted(data, book_number, chapter_number, verses) ==
  IF HasNumber(data.books, book_number)
  THEN [data EXCEPT !.books[FirstIndex(data.books, book_number)].chapters =
                      PatchChapters(@, chapter_number, verses)]
  ELSE [data EXCEPT !.books =
          Append(@, [NewBook(book_number) EXCEPT !.chapters =
                       <<[number |-> chapter_number, verses |-> verses]>>])]

\* a patch that puts a new book with the one chapter in the place of the book
PatchDocumentReplaceBook(data, book_number, chapter_number, verses) ==
  [data EXCEPT !.books =
     SortByNumber(Append(SelectSeq(@, LAMBDA b : b.number # book_number),
                         [NewBook(book_number) EXCEPT !.chapters =
                            <<[number |-> chapter_number, verses |-> verses]>>]))]

\* "Find the book in the existing data", or add it
PatchDocument(data, book_number, chapter_number, verses) ==
  IF HasNumber(data.books, book_number)
  THEN [data EXCEPT !.books[FirstIndex(data.books, book_number)].chapters =
                      PatchChapters(@, chapter_number, verses)]
  ELSE [data EXCEPT !.books =
          SortByNumber(Append(@, [NewBook(book_number) EXCEPT !.chapters =
                                    <<[number |-> chapter_number, verses |-> verses]>>]))]

RetryResponses == {PageAB, PageC, PageNoise, RequestError}

RetryBooks == {1, 2}

\* chapter 0 is not a chapter of any book
RetryChapters == {0, 1, 2}

Chapter(number, verses) == [number |-> number, verses |-> verses]

\* documents the earlier runs of the scripts left: of fetch_bible with nothing
\* fetched and with Genesis 1, and of main.py with chapter 2 of its second book
EmptyDocument == [version |-> VersionOf("niv"), books |-> <<>>]

GenesisDocument ==
  [version |-> VersionOf("niv"),
   books |-> <<[NewBook(1) EXCEPT !.chapters =
                  <<Chapter(1, AttemptVerses(PageDup)), Chapter(2, AttemptVerses(PageC))>>]>>]

MainDocument ==
  [version |-> MainVersion,
   books |-> <<[MainNewBook(2) EXCEPT !.chapters =
                  <<Chapter(2, MainFetchChapter(RowsAB))>>]>>,
   total_books |-> 1,
   total_verses |-> 2]

RetryFiles ==
  {NoFile, Truncated(GenesisDocument), Complete(EmptyDocument),
   Complete(GenesisDocument), Complete(MainDocument)}

RetryJob(book_number, chapter_number, runs) ==
  [script |-> "retry", translation |-> "niv", book_number |-> book_number,
   chapter_number |-> chapter_number, attempt |-> 1, verses |-> <<>>,
   error |-> "", runs |-> runs]

InitRetry ==
  /\ pc = "start"
  /\ \E b \in RetryBooks, c \in RetryChapters : job = RetryJob(b, c, 1)
  /\ \E file \in RetryFiles : disk = [output |-> file]
  /\ prior = disk
  /\ output_data = Unused
  /\ history = <<>>
  /\ arg = Unused /\ ret = Unused /\ stream = Unused /\ books_dict = Unused

\* the checks of the chapter number and "Load existing JSON file"
RetryLoad ==
  /\ job.script = "retry"
  /\ pc = "start"
  /\ IF job.chapter_number < 1 \/ job.chapter_number > BOOKS[job.book_number].chapters
     THEN /\ job' = [job EXCEPT !.error = "chapter not valid"]
          /\ pc' = "exit"
          /\ UNCHANGED output_data
     ELSE IF ~disk.output.exists
     THEN /\ job' = [job EXCEPT !.error = "file not found"]
          /\ pc' = "exit"
          /\ UNCHANGED output_data
     ELSE IF ~Loadable(disk.output)
     THEN /\ job' = [job EXCEPT !.error = "invalid json"]
          /\ pc' = "exit"
          /\ UNCHANGED output_data
     ELSE /\ output_data' = disk.output.data
          /\ pc' = "fetch_chapter"
          /\ UNCHANGED job
  /\ UNCHANGED <<arg, ret, stream, books_dict, disk, prior, history>>

\* a retry_chapter without the exit on no verses: whatever fetch_chapter
\* returns is patched in and saved
RetryAttemptUnchecked ==
  /\ job.script = "retry"
  /\ pc = "fetch_chapter"
  /\ \E response \in RetryResponses :
       LET verses == AttemptVerses(response)
       IN IF verses # <<>> \/ job.attempt >= max_retries
          THEN /\ job' = [job EXCEPT !.verses = verses]
               /\ output_data' = PatchDocument(output_data, job.book_number,
                                               job.chapter_number, verses)
               /\ pc' = "save"
          ELSE /\ job' = [job EXCEPT !.attempt = @ + 1]
               /\ UNCHANGED <<pc, output_data>>
  /\ UNCHANGED <<arg, ret, stream, books_dict, disk, prior, history>>

\* One pass of the retry loop of fetch_chapter; when it returns, retry_chapter
\* exits on no verses and patches output_data otherwise.
RetryAttempt ==
  /\ job.script = "retry"
  /\ pc = "fetch_chapter"
  /\ \E response \in RetryResponses :
       LET verses == AttemptVerses(response)
       IN IF verses # <<>>
          THEN /\ job' = [job EXCEPT !.verses = verses]
               /\ output_data' = PatchDocument(output_data, job.book_number,
                                               job.chapter_number, verses)
               /\ pc' = "save"
          ELSE IF job.attempt < max_retries
          THEN /\ job' = [job EXCEPT !.attempt = @ + 1]
               /\ UNCHANGED <<pc, output_data>>
          ELSE /\ job' = [job EXCEPT !.error = "no verses"]
               /\ pc' = "exit"
               /\ UNCHANGED output_data
  /\ UNCHANGED <<arg, ret, stream, books_dict, disk, prior, history>>

\* "Save the updated JSON file": open(json_file, 'w') empties the file
RetrySaveOpen ==
  /\ job.script = "retry"
  /\ pc = "save"
  /\ disk' = [disk EXCEPT !.output = Truncated(output_data)]
  /\ pc' = "dump"
  /\ UNCHANGED <<arg, ret, stream, books_dict, output_data, prior, job, history>>

\* json.dump writes the next piece; after the last one the file is closed
RetrySaveDump ==
  /\ job.script = "retry"
  /\ pc = "dump"
  /\ disk' = [disk EXCEPT !.output.written = @ + 1]
  /\ IF disk.output.written + 1 < Chunks(disk.output.data)
     THEN UNCHANGED <<pc, history>>
     ELSE /\ history' = Append(history, [book_number |-> job.book_number,
                                         chapter_number |-> job.chapter_number,
                                         verses |-> job.verses])
          /\ pc' = "done"
  /\ UNCHANGED <<arg, ret, stream, books_dict, output_data, prior, job>>

\* open or write raises: "Failed to save file", exit
RetrySaveError ==
  /\ job.script = "retry"
  /\ pc \in {"save", "dump"}
  /\ job' = [job EXCEPT !.error = "failed to save"]
  /\ pc' = "failed"
  /\ UNCHANGED <<arg, ret, stream, books_dict, output_data, disk, prior, history>>

\* KeyboardInterrupt: main logs it and exits
RetryInterrupt ==
  /\ job.script = "retry"
  /\ pc \in {"start", "fetch_chapter", "save", "dump"}
  /\ pc' = "interrupted"
  /\ UNCHANGED <<arg, ret, stream, books_dict, output_data, disk, prior, job, history>>

\* the operator runs the script again on the same file
RetryAgain ==
  /\ job.script = "retry"
  /\ pc \in {"done", "exit", "failed", "interrupted"}
  /\ job.runs < MaxPatches
  /\ \E b \in RetryBooks, c \in RetryChapters : job' = RetryJob(b, c, job.runs + 1)
  /\ prior' = disk
  /\ output_data' = Unused
  /\ pc' = "start"
  /\ UNCHANGED <<arg, ret, stream, books_dict, disk, history>>

NextRetry ==
  \/ RetryLoad
  \/ RetryAttempt
  \/ RetrySaveOpen
  \/ RetrySaveDump
  \/ RetrySaveError
  \/ RetryInterrupt
  \/ RetryAgain

SpecRetry == InitRetry /\ [][NextRetry]_vars

(***************************************************************************)
(* Book-name resolution of parse_kjv_text on the surface forms of          *)
(* BOOK_NAME_MAP                                                           *)
(***************************************************************************)
MaxPad == 1    \* spaces before and after the name
MaxRun == 2    \* length of the whitespace runs inside the name

UpperChar(c) ==
  IF \E i \in 1..Len(LOWER) : LOWER[i] = c
  THEN UPPER[CHOOSE i \in 1..Len(LOWER) : LOWER[i] = c]
  ELSE c

Spaces(n) == [i \in 1..n |-> " "]

\* the name with every space made a run of n spaces
RECURSIVE Widen(_, _)
Widen(s, n) ==
  IF s = <<>> THEN <<>>
  ELSE (IF Head(s) = " " THEN Spaces(n) ELSE <<Head(s)>>) \o Widen(Tail(s), n)

\* a line of the text file whose book name is the form, in upper case or not,
\* padded and widened
AliasLine(form, upper, pad, run) ==
  Spaces(pad)
  \o Widen(IF upper THEN [i \in 1..Len(form) |-> UpperChar(form[i])] ELSE form, run)
  \o Spaces(pad) \o <<" ", "1", ":", "1", "\t", "A">>

InitAlias ==
  /\ pc = "resolve"
  /\ \E form \in DOMAIN BOOK_NAME_MAP, upper \in BOOLEAN, pad \in 0..MaxPad, run \in 1..MaxRun :
       /\ job = [script |-> "alias", form |-> form]
       /\ arg = AliasLine(form, upper, pad, run)
  /\ ret = <<>>
  /\ stream = Unused /\ books_dict = Unused /\ output_data = Unused
  /\ disk = Unused /\ prior = Unused /\ history = Unused

\* one pass of the loop over the lines, on the line arg
ResolveLine ==
  /\ job.script = "alias"
  /\ pc = "resolve"
  /\ ret' = <<ParseLine(arg)>>
  /\ pc' = "resolved"
  /\ UNCHANGED <<arg, stream, books_dict, output_data, disk, prior, job, history>>

NextAlias == ResolveLine

SpecAlias == InitAlias /\ [][NextAlias]_vars

(***************************************************************************)
(* fetch_chapter of fetch_bst_bible.py, called with any max_retries        *)
(***************************************************************************)
RetryBound == 4    \* fetch_chapter is called with max_retries in 0..RetryBound

InitChapter ==
  /\ pc = "loop"
  /\ \E n \in 0..RetryBound : job = [script |-> "chapter", max_retries |-> n, attempt |-> 1]
  /\ ret = <<>>
  /\ history = <<>>
  /\ arg = Unused /\ stream = Unused /\ books_dict = Unused /\ output_data = Unused
  /\ disk = Unused /\ prior = Unused

\* an attempt that makes requests forever: it neither returns after the last
\* attempt nor counts the attempts against max_retries
ChapterAttemptUnbounded ==
  /\ job.script = "chapter"
  /\ pc = "loop"
  /\ job.attempt <= RetryBound + 1
  /\ \E response \in FetchResponses :
       /\ history' = Append(history, response)
       /\ IF AttemptVerses(response) # <<>>
          THEN /\ ret' = <<AttemptVerses(response)>>
               /\ pc' = "returned"
               /\ UNCHANGED job
          ELSE /\ job' = [job EXCEPT !.attempt = @ + 1]
               /\ UNCHANGED <<pc, ret>>
  /\ UNCHANGED <<arg, stream, books_dict, output_data, disk, prior>>

\* one pass of the loop "for attempt in range(1, max_retries + 1)": the request,
\* then the return of the verses, the next pass, or the return of []
ChapterAttempt ==
  /\ job.script = "chapter"
  /\ pc = "loop"
  /\ job.attempt <= job.max_retries
  /\ \E response \in FetchResponses :
       /\ history' = Append(history, response)
       /\ IF AttemptVerses(response) # <<>>
          THEN /\ ret' = <<AttemptVerses(response)>>
               /\ pc' = "returned"
               /\ UNCHANGED job
          ELSE IF job.attempt < job.max_retries
          THEN /\ job' = [job EXCEPT !.attempt = @ + 1]
               /\ UNCHANGED <<pc, ret>>
          ELSE /\ ret' = << <<>> >>
               /\ pc' = "returned"
               /\ UNCHANGED job
  /\ UNCHANGED <<arg, stream, books_dict, output_data, disk, prior>>

\* the range is exhausted without a return in the loop: the last "return []"
ChapterLoopEnd ==
  /\ job.script = "chapter"
  /\ pc = "loop"
  /\ job.attempt > job.max_retries
  /\ ret' = << <<>> >>
  /\ pc' = "returned"
  /\ UNCHANGED <<arg, stream, books_dict, output_data, disk, prior, job, history>>

NextChapter ==
  \/ ChapterAttempt
  \/ ChapterLoopEnd

\* a call of fetch_chapter runs on until it returns
SpecChapter == InitChapter /\ [][NextChapter]_vars /\ WF_vars(NextChapter)

(***************************************************************************)
(* Script conversion: convert_to_simplified (main.py) and                  *)
(* JSONSimplifiedConverter.convert_bible_data (convert_to_simplified.py)   *)
(***************************************************************************)
MaxTotal == 3    \* the total fields of an input document are in 0..MaxTotal

\* convert_version_info: the code gets the suffix, the name is converted
convert_version_info(version_info) ==
  [code |-> version_info.code \o "-SC",
   name |-> Convert(version_info.name) \o <<" ", "(", "jian", "ti", ")">>]

\* a convert_verse that copies the text as it is
convert_verse_unconverted(verse) == [number |-> verse.number, text |-> verse.text]

convert_verse(verse) == [number |-> verse.number, text |-> Convert(verse.text)]

convert_chapter(chapter) ==
  [number |-> chapter.number,
   verses |-> [k \in 1..Len(chapter.verses) |-> convert_verse(chapter.verses[k])]]

convert_book(book) ==
  [number |-> book.number,
   name |-> Convert(book.name),
   abbreviation |-> Convert(book.abbreviation),
   chapters |-> [j \in 1..Len(book.chapters) |-> convert_chapter(book.chapters[j])]]

\* books: convert_book of every book appended in order
RECURSIVE ConvertedBooks(_)
ConvertedBooks(books) ==
  IF books = <<>> THEN <<>>
  ELSE <<convert_book(Head(books))>> \o ConvertedBooks(Tail(books))

\* convert_bible_data of JSONSimplifiedConverter
convert_bible_data(data) ==
  [version |-> convert_version_info(data.version),
   books |-> ConvertedBooks(data.books),
   total_books |-> data.total_books,
   total_verses |-> data.total_verses]

\* the input documents: none, one or two books of main.py, without the total
\* fields or with any values of them
ConvertChapterLists ==
  {<<Chapter(1, MainFetchChapter(RowsAB))>>,
   <<Chapter(1, MainFetchChapter(RowsC)), Chapter(2, MainFetchChapter(RowsAB))>>}

ConvertBookLists ==
  {<<>>}
  \cup {<<[MainNewBook(n) EXCEPT !.chapters = c]>> : n \in {1, 2}, c \in ConvertChapterLists}
  \cup {<<[MainNewBook(1) EXCEPT !.chapters = c], [MainNewBook(2) EXCEPT !.chapters = d]>> :
          c \in ConvertChapterLists, d \in ConvertChapterLists}

ConvertInputs ==
  {[version |-> MainVersion, books |-> b] : b \in ConvertBookLists}
  \cup {[version |-> MainVersion, books |-> b, total_books |-> tb, total_verses |-> tv] :
          b \in ConvertBookLists, tb \in 0..MaxTotal, tv \in 0..MaxTotal}

InitConvert ==
  /\ pc = "convert"
  /\ \E tool \in {"main", "file"} : job = [script |-> "convert", tool |-> tool]
  /\ arg \in ConvertInputs
  /\ prior = arg
  /\ output_data = Unused
  /\ ret = Unused /\ stream = Unused /\ books_dict = Unused
  /\ disk = Unused /\ history = Unused

\* a conversion that writes the converted books into the document it is given
ConvertInPlace ==
  /\ job.script = "convert"
  /\ pc = "convert"
  /\ {"total_books", "total_verses"} \subseteq DOMAIN arg
  /\ output_data' = convert_bible_data(arg)
  /\ arg' = [arg EXCEPT !.books = convert_bible_data(arg).books]
  /\ pc' = "converted"
  /\ UNCHANGED <<ret, stream, books_dict, disk, prior, job, history>>

\* the call of the converter on the document arg: data["total_books"] raises
\* KeyError when the document has no such field
ConvertData ==
  /\ job.script = "convert"
  /\ pc = "convert"
  /\ IF {"total_books", "total_verses"} \subseteq DOMAIN arg
     THEN /\ output_data' = IF job.tool = "main" THEN convert_to_simplified(arg)
                            ELSE convert_bible_data(arg)
          /\ pc' = "converted"
     ELSE /\ pc' = "key_error"
          /\ UNCHANGED output_data
  /\ UNCHANGED <<arg, ret, stream, books_dict, disk, prior, job, history>>

NextConvert == ConvertData

SpecConvert == InitConvert /\ [][NextConvert]_vars

(***************************************************************************)
(* main.py --test: Genesis 1 alone; and every script that writes a         *)
(* document it built                                                       *)
(***************************************************************************)
\* test_data
TestData(verses) ==
  [version |-> MainVersion,
   books |-> <<[MainNewBook(1) EXCEPT !.chapters = <<Chapter(1, verses)>>]>>,
   total_books |-> 1,
   total_verses |-> Len(verses)]

InitMainTest ==
  /\ pc = "test"
  /\ job = [script |-> "main", test |-> TRUE]
  /\ output_data = Unused
  /\ disk = [output |-> NoFile, simplified |-> NoFile]
  /\ prior = disk
  /\ history = [fetched |-> <<>>, checkpoints |-> <<>>, chapters |-> <<>>, failed |-> <<>>]
  /\ arg = Unused /\ ret = Unused /\ stream = Unused /\ books_dict = Unused

\* verses = fetch_chapter(..., 1) and test_data; the two files are then written
\* as in the normal mode
MainTestFetch ==
  /\ job.script = "main"
  /\ pc = "test"
  /\ \E response \in MainResponses :
       output_data' = TestData(MainFetchChapter(response))
  /\ pc' = "save"
  /\ UNCHANGED <<arg, ret, stream, books_dict, disk, prior, job, history>>

InitWrite == InitBuild \/ InitMainTest

NextWrite == NextBuild \/ MainTestFetch

SpecWrite == InitWrite /\ [][NextWrite]_vars

(***************************************************************************)
(* parse_book_name applied to a reference that may lack its chapter:verse  *)
(***************************************************************************)
\* a reference cut before its verse, before its colon or before its chapter
CutReference(name, chapter, cut) ==
  CASE cut = "verse" -> name \o <<" ">> \o ToDigits(chapter) \o <<":">>
    [] cut = "colon" -> name \o <<" ">> \o ToDigits(chapter)
    [] cut = "chapter" -> name

Cuts == {"verse", "colon", "chapter"}

InitParse ==
  /\ pc = "parse"
  /\ arg \in {Reference(name, c, v) : name \in RefNames, c \in RefNums, v \in RefNums}
             \cup {CutReference(name, c, cut) : name \in RefNames, c \in RefNums, cut \in Cuts}
  /\ ret = <<>>
  /\ stream = Unused /\ books_dict = Unused /\ output_data = Unused
  /\ disk = Unused /\ prior = Unused /\ job = Unused /\ history = Unused

SpecParse == InitParse /\ [][NextRef]_vars

(***************************************************************************)
(* BOOK_NAME_MAP looked up with the forms of a book's name                 *)
(***************************************************************************)
NameForms == {"full", "unspaced", "numeral spaced", "numeral unspaced"}

NumeralLed(name) == " " \in Range(name) /\ IsDigit(name[1])

\* a form of the name of a book, in lower case
NameForm(name, form) ==
  CASE form = "full" -> Lower(name)
    [] form = "unspaced" -> Lower(Remove(name, " "))
    [] form = "numeral spaced" ->
         Lower(Split(name)[1] \o <<" ">> \o Join(Tail(Split(name)), <<" ">>))
    [] form = "numeral unspaced" ->
         Lower(Split(name)[1] \o Join(Tail(Split(name)), <<" ">>))

InitTable ==
  /\ pc = "lookup"
  /\ \E n \in 1..Len(BOOKS), form \in NameForms :
       /\ NumeralLed(BOOKS[n].name) \/ form \in {"full", "unspaced"}
       /\ job = [script |-> "table", book |-> n, form |-> form]
       /\ arg = NameForm(BOOKS[n].name, form)
  /\ ret = <<>>
  /\ stream = Unused /\ books_dict = Unused /\ output_data = Unused
  /\ disk = Unused /\ prior = Unused /\ history = Unused

\* BOOK_NAME_MAP.get(key)
TableLookup ==
  /\ job.script = "table"
  /\ pc = "lookup"
  /\ ret' = <<DictGet(BOOK_NAME_MAP, arg)>>
  /\ pc' = "found"
  /\ UNCHANGED <<arg, stream, books_dict, output_data, disk, prior, job, history>>

NextTable == TableLookup

SpecTable == InitTable /\ [][NextTable]_vars

(***************************************************************************)
(* generate_vectors.py: one or two runs of the script on one database      *)
(***************************************************************************)
BATCH_SIZE == 100

MaxBatches == 2     \* full batches of the largest verses table

\* sizes of the verses table: empty, one short batch, one full batch, and
\* MaxBatches full batches followed by a batch of one verse
VerseCounts == {0, 1, BATCH_SIZE, MaxBatches * BATCH_SIZE + 1}

\* bible_vectors as the number of rows it holds for each verse id
NoVectors(total) == [id \in 1..total |-> 0]

AllVectors(total) == [id \in 1..total |-> 1]

\* the ids of verses[i:i + BATCH_SIZE], the verses ordered by id
BatchIds(total, i) == {id \in 1..total : i < id /\ id <= i + BATCH_SIZE}

\* UPDATE vector_update_logs SET status = to WHERE status IN from
UpdateStatus(logs, from, to) ==
  [k \in 1..Len(logs) |-> IF logs[k] \in from THEN to ELSE logs[k]]

Local == [should_run |-> FALSE, i |-> 0, insert_data |-> {}, failed |-> FALSE,
          completed |-> {}]

\* The database as an earlier run or the import left it. Whether verse_id of
\* bible_vectors carries a unique index is decided by the schema, which the
\* script does not state: both are possible.
InitVectors ==
  /\ \E runs \in {{1}, {1, 2}} :
       /\ pc = [p \in runs |-> "main"]
       /\ arg \in [runs -> [force : BOOLEAN]]
       /\ job = [script |-> "vectors", run |-> [p \in runs |-> Local]]
  /\ \E total \in VerseCounts, unique \in BOOLEAN :
       /\ disk \in [verses : {total},
                    unique_verse_id : {unique},
                    bible_vectors : {NoVectors(total), AllVectors(total)},
                    vector_update_logs : {<<>>, <<"pending">>}]
  /\ prior = disk
  /\ ret = Unused /\ stream = Unused /\ books_dict = Unused
  /\ output_data = Unused /\ history = Unused

\* __main__: --force, or the count of the pending logs
VectorsCheck ==
  \E p \in DOMAIN pc :
    /\ job.script = "vectors"
    /\ pc[p] = "main"
    /\ IF arg[p].force
       THEN /\ job' = [job EXCEPT !.run[p].should_run = TRUE]
            /\ pc' = [pc EXCEPT ![p] = "load"]
       ELSE IF \E k \in 1..Len(disk.vector_update_logs) :
                 disk.vector_update_logs[k] = "pending"
       THEN /\ job' = [job EXCEPT !.run[p].should_run = TRUE]
            /\ pc' = [pc EXCEPT ![p] = "processing"]
       ELSE /\ pc' = [pc EXCEPT ![p] = "closed"]
            /\ UNCHANGED job
    /\ UNCHANGED <<arg, ret, stream, books_dict, output_data, disk, prior, history>>

\* __main__: the pending logs are set to 'processing' and committed
VectorsProcessing ==
  \E p \in DOMAIN pc :
    /\ job.script = "vectors"
    /\ pc[p] = "processing"
    /\ disk' = [disk EXCEPT !.vector_update_logs =
                  UpdateStatus(@, {"pending"}, "processing")]
    /\ pc' = [pc EXCEPT ![p] = "load"]
    /\ UNCHANGED <<arg, ret, stream, books_dict, output_data, prior, job, history>>

\* migrate_vectors: SentenceTransformer(MODEL_NAME), outside the try: when it
\* raises, the except of __main__ rolls back and the script ends
VectorsLoad ==
  \E p \in DOMAIN pc :
    /\ job.script = "vectors"
    /\ pc[p] = "load"
    /\ \E loaded \in BOOLEAN :
         IF loaded
         THEN /\ pc' = [pc EXCEPT ![p] = "truncate"]
              /\ UNCHANGED job
         ELSE /\ pc' = [pc EXCEPT ![p] = "closed"]
              /\ job' = [job EXCEPT !.run[p].failed = TRUE]
    /\ UNCHANGED <<arg, ret, stream, books_dict, output_data, disk, prior, history>>

\* a migrate_vectors that leaves the vectors it finds in the table
VectorsSkipTruncate ==
  \E p \in DOMAIN pc :
    /\ job.script = "vectors"
    /\ pc[p] = "truncate"
    /\ job' = [job EXCEPT !.run[p].i = 0]
    /\ pc' = [pc EXCEPT ![p] = "batch"]
    /\ UNCHANGED <<arg, ret, stream, books_dict, output_data, disk, prior, history>>

\* migrate_vectors: TRUNCATE and commit, then the verses are fetched. TRUNCATE
\* waits for the rows another connection has inserted and not yet committed.
VectorsTruncate ==
  \E p \in DOMAIN pc :
    /\ job.script = "vectors"
    /\ pc[p] = "truncate"
    /\ \A q \in DOMAIN pc \ {p} : job.run[q].insert_data = {}
    /\ disk' = [disk EXCEPT !.bible_vectors = NoVectors(disk.verses)]
    /\ job' = [job EXCEPT !.run[p].i = 0]
    /\ pc' = [pc EXCEPT ![p] = "batch"]
    /\ UNCHANGED <<arg, ret, stream, books_dict, output_data, prior, history>>

\* the for loop: the next batch is embedded, or the loop is over; an exception
\* of model.encode is caught, rolled back, and migrate_vectors returns
VectorsEncode ==
  \E p \in DOMAIN pc :
    /\ job.script = "vectors"
    /\ pc[p] = "batch"
    /\ IF job.run[p].i >= disk.verses
       THEN /\ pc' = [pc EXCEPT ![p] = "migrated"]
            /\ UNCHANGED job
       ELSE \E encoded \in BOOLEAN :
              IF encoded
              THEN /\ pc' = [pc EXCEPT ![p] = "insert"]
                   /\ UNCHANGED job
              ELSE /\ pc' = [pc EXCEPT ![p] = "migrated"]
                   /\ job' = [job EXCEPT !.run[p].failed = TRUE]
    /\ UNCHANGED <<arg, ret, stream, books_dict, output_data, disk, prior, history>>

\* execute_values(INSERT INTO bible_vectors ...) of the batch: the rows stay
\* uncommitted; under a unique index the statement waits for the uncommitted
\* rows of the same verses and raises when a committed row has the verse_id;
\* an exception is caught, rolled back, and migrate_vectors returns
VectorsInsert ==
  \E p \in DOMAIN pc :
    /\ job.script = "vectors"
    /\ pc[p] = "insert"
    /\ LET batch == BatchIds(disk.verses, job.run[p].i)
       IN /\ disk.unique_verse_id =>
               \A q \in DOMAIN pc \ {p} : job.run[q].insert_data \cap batch = {}
          /\ \E inserted \in BOOLEAN :
               IF /\ inserted
                  /\ ~(disk.unique_verse_id /\ \E id \in batch : disk.bible_vectors[id] > 0)
               THEN /\ job' = [job EXCEPT !.run[p].insert_data = batch]
                    /\ pc' = [pc EXCEPT ![p] = "commit"]
               ELSE /\ job' = [job EXCEPT !.run[p].failed = TRUE]
                    /\ pc' = [pc EXCEPT ![p] = "migrated"]
    /\ UNCHANGED <<arg, ret, stream, books_dict, output_data, disk, prior, history>>

\* conn.commit() of the batch, and the loop goes on
VectorsCommit ==
  \E p \in DOMAIN pc :
    /\ job.script = "vectors"
    /\ pc[p] = "commit"
    /\ disk' = [disk EXCEPT !.bible_vectors =
                  [id \in DOMAIN @ |->
                     IF id \in job.run[p].insert_data THEN @[id] + 1 ELSE @[id]]]
    /\ job' = [job EXCEPT !.run[p].insert_data = {}, !.run[p].i = @ + BATCH_SIZE]
    /\ pc' = [pc EXCEPT ![p] = "batch"]
    /\ UNCHANGED <<arg, ret, stream, books_dict, output_data, prior, history>>

\* __main__ after migrate_vectors has returned: the pending and processing
\* logs are set to 'completed' and committed
VectorsCompleted ==
  \E p \in DOMAIN pc :
    /\ job.script = "vectors"
    /\ pc[p] = "migrated"
    /\ disk' = [disk EXCEPT !.vector_update_logs =
                  UpdateStatus(@, {"pending", "processing"}, "completed")]
    /\ job' = [job EXCEPT !.run[p].completed =
                 {k \in 1..Len(disk.vector_update_logs) :
                    disk.vector_update_logs[k] \in {"pending", "processing"}}]
    /\ pc' = [pc EXCEPT ![p] = "closed"]
    /\ UNCHANGED <<arg, ret, stream, books_dict, output_data, prior, history>>

NextVectors ==
  \/ VectorsCheck
  \/ VectorsProcessing
  \/ VectorsLoad
  \/ VectorsTruncate
  \/ VectorsEncode
  \/ VectorsInsert
  \/ VectorsCommit
  \/ VectorsCompleted

SpecVectors == InitVectors /\ [][NextVectors]_vars

(***************************************************************************)
(* Properties                                                              *)
(***************************************************************************)
\* the places <<i, j>> of a document that hold chapter c of book b
ChapterPlaces(data, b, c) ==
  UNION {{<<i, j>> : j \in {j \in 1..Len(data.books[i].chapters) :
                               data.books[i].chapters[j].number = c}} :
         i \in {i \in 1..Len(data.books) : data.books[i].number = b}}

\* the places <<i, j, k>> of a document that hold verse v of chapter c of book b
VersePlaces(data, b, c, v) ==
  UNION {{<<p[1], p[2], k>> :
            k \in {k \in 1..Len(data.books[p[1]].chapters[p[2]].verses) :
                     data.books[p[1]].chapters[p[2]].verses[k].number = v}} :
         p \in ChapterPlaces(data, b, c)}

StrictlyAscending(seq) ==
  \A i \in 1..(Len(seq) - 1) : seq[i].number < seq[i + 1].number

DocumentAscending(data) ==
  /\ StrictlyAscending(data.books)
  /\ \A i \in 1..Len(data.books) :
       /\ StrictlyAscending(data.books[i].chapters)
       /\ \A j \in 1..Len(data.books[i].chapters) :
            StrictlyAscending(data.books[i].chapters[j].verses)

HasTotals(data) ==
  /\ {"total_books", "total_verses"} \subseteq DOMAIN data
  /\ data.total_books = Len(data.books)
  /\ data.total_verses = CountVerses(data.books)

\* C1: every document a build run has written carries total_books and
\* total_verses, equal to the number of its books and the number of its verses.
WrittenDocumentsCarryTotals ==
  \A k \in 1..Len(history.checkpoints) : HasTotals(history.checkpoints[k])

\* C2: the document a build run has built has its books, the chapters of every
\* book and the verses of every chapter strictly ascending by number.
BuiltDocumentStrictlyAscending ==
  (pc \in {"save", "dump", "save_simplified", "dump_simplified", "done"})
    => DocumentAscending(output_data)

\* the lines of the stream that parse_kjv_text takes as verse records
IsRecord(n) == ParseLine(stream[n]).kind = "verse"

SameKey(m, n) ==
  /\ ParseLine(stream[m]).book_num = ParseLine(stream[n]).book_num
  /\ ParseLine(stream[m]).chapter_num = ParseLine(stream[n]).chapter_num
  /\ ParseLine(stream[m]).verse.number = ParseLine(stream[n]).verse.number

\* the records that no later record of the same key follows
LastRecords ==
  {n \in 1..Len(stream) :
     /\ IsRecord(n)
     /\ \A m \in (n + 1)..Len(stream) : ~(IsRecord(m) /\ SameKey(m, n))}

\* C3: the document parse_kjv_text builds holds, for every key of the stream,
\* exactly one verse, with the text of the last record of that key, and no
\* other verse.
LastWriteWinsPerVerse ==
  (pc = "save") =>
    /\ \A n \in LastRecords :
         LET r == ParseLine(stream[n])
             places == VersePlaces(output_data, r.book_num, r.chapter_num, r.verse.number)
         IN /\ Cardinality(places) = 1
            /\ \A p \in places :
                 output_data.books[p[1]].chapters[p[2]].verses[p[3]].text = r.verse.text
    /\ CountVerses(output_data.books) = Cardinality(LastRecords)

\* the successful patches of chapter c of book b, in order
PatchesOf(b, c) ==
  SelectSeq(history, LAMBDA h : h.book_number = b /\ h.chapter_number = c)

\* C4: in the persisted document, a chapter that was patched occurs exactly
\* once and its verses are exactly those of the last successful patch of it.
PatchLastWriteWins ==
  Loadable(disk.output) =>
    \A k \in 1..Len(history) :
      LET b == history[k].book_number
          c == history[k].chapter_number
          patches == PatchesOf(b, c)
          places == ChapterPlaces(disk.output.data, b, c)
      IN /\ Cardinality(places) = 1
         /\ \A p \in places :
              disk.output.data.books[p[1]].chapters[p[2]].verses
                = patches[Len(patches)].verses

\* C4: Genesis 1, which the file held, was patched with two verses and then
\* with one, and the second patch is on disk.
PatchedTwice ==
  /\ pc = "done"
  /\ Loadable(disk.output)
  /\ Len(history) = 2
  /\ history[1] = [book_number |-> 1, chapter_number |-> 1,
                   verses |-> AttemptVerses(PageAB)]
  /\ history[2] = [book_number |-> 1, chapter_number |-> 1,
                   verses |-> AttemptVerses(PageC)]
  /\ prior.output.data.books[1].chapters[1].verses = AttemptVerses(PageAB)

\* C5: when the save of retry_chapter fails or is interrupted, the file is the
\* complete prior document or the complete patched document.
PatchWriteAtomic ==
  (job.script = "retry" /\ pc \in {"failed", "interrupted"})
    => (disk = prior \/ disk.output = Complete(output_data))

\* C6: retry_chapter never saves an empty verse list, and when the fetch gave
\* no verses it ends in the error with the file as it was before the call.
EmptyFetchLeavesFile ==
  /\ (pc \in {"save", "dump", "done"}) => (job.verses # <<>>)
  /\ (pc = "exit" /\ job.error = "no verses") => (disk = prior)

\* C6: the fetch gave no verses for Genesis 1, which the file holds
EmptyFetchOfExistingChapter ==
  /\ pc = "exit"
  /\ job.error = "no verses"
  /\ job.book_number = 1
  /\ job.chapter_number = 1
  /\ disk.output = Complete(GenesisDocument)

\* C7: between the fetch of one book and the fetch of the next, the file holds
\* every book fetched so far that has content.
CompletedBooksOnDisk ==
  (pc = "fetch_chapter" /\ history.fetched # <<>>) =>
    /\ Loadable(disk.output)
    /\ \A k \in 1..Len(history.fetched) :
         (history.fetched[k].chapters # <<>>) =>
           \E i \in 1..Len(disk.output.data.books) :
             disk.output.data.books[i] = history.fetched[k]

\* C8: when fetch_bible ends by an interrupt or a write error, the file is as
\* it was before the run or holds, complete, a checkpoint the run finished.
CheckpointIntact ==
  (pc \in {"interrupted", "failed"}) =>
    \/ disk.output = prior.output
    \/ \E k \in 1..Len(history.checkpoints) :
         disk.output = Complete(history.checkpoints[k])

\* C9: clean_verse_text is idempotent: cleaning a cleaned text changes nothing.
CleanIdempotent == (pc = "done") => (ret[2] = ret[1])

\* C10: parse_book_name gives the canonical number for "<name> <c>:<v>" with
\* the full name of any of the 66 books, and None for a name in no alias entry.
ParseBookNameResolves ==
  (pc = "parsed") =>
    \A c \in RefNums, v \in RefNums :
      /\ \A n \in 1..Len(BOOKS) :
           (arg = Reference(BOOKS[n].name, c, v)) => (ret[1] = BOOKS[n].number)
      /\ (arg = Reference(Nonexistent, c, v)) => (ret[1] = None)

\* C11: a line whose book name differs from a form of BOOK_NAME_MAP only in
\* letter case, in leading or trailing spaces or in the length of the runs of
\* spaces inside it resolves to the book number of the form.
AliasLookupInsensitive ==
  (pc = "resolved") =>
    (ret[1].kind = "verse" /\ ret[1].book_num = BOOK_NAME_MAP[job.form])

\* the requests of a call so far: at most max_retries, none after one that
\* gave verses, and what the call returned is those verses or the empty list
ChapterRequestsBounded ==
  /\ Len(history) <= job.max_retries
  /\ \A k \in 1..(Len(history) - 1) : AttemptVerses(history[k]) = <<>>
  /\ (pc = "returned") =>
       ret = <<IF history = <<>> THEN <<>> ELSE AttemptVerses(history[Len(history)])>>

\* C12: fetch_chapter makes at most max_retries requests, none after the first
\* that yields verses, and it terminates returning those verses or the empty
\* list.
FetchChapterBounded == []ChapterRequestsBounded /\ <>(pc = "returned")

\* C12: with max_retries = 3, an exception, then an empty page, then verses
ThirdAttemptSucceeds ==
  /\ pc = "returned"
  /\ job.max_retries = 3
  /\ history = <<RequestError, PageNoise, PageAB>>
  /\ ret = <<AttemptVerses(PageAB)>>

\* the (book, chapter) pairs of a run over books, in the order of the fetches
RECURSIVE ChaptersOfRange(_)
ChaptersOfRange(books) ==
  IF books = <<>> THEN <<>>
  ELSE [c \in 1..ChapterCount(Head(books)) |-> <<Head(books), c>>]
       \o ChaptersOfRange(Tail(books))

\* C13: when a run of an orchestrator is done, fetch_chapter was called for
\* every chapter of every book of the range, and the document on disk holds
\* each chapter that gave verses, with those verses, and no other chapter.
FailedChapterDoesNotAbort ==
  (pc = "done" /\ job.script \in {"bst", "main"}) =>
    /\ [k \in 1..Len(history.chapters) |->
          <<history.chapters[k].book, history.chapters[k].chapter>>]
         = ChaptersOfRange(BooksToFetch(job.start_from, job.end_at))
    /\ Loadable(disk.output)
    /\ \A k \in 1..Len(history.chapters) :
         LET h == history.chapters[k]
             places == ChapterPlaces(disk.output.data, h.book, h.chapter)
         IN IF h.verses = <<>> THEN places = {}
            ELSE /\ Cardinality(places) = 1
                 /\ \A p \in places :
                      disk.output.data.books[p[1]].chapters[p[2]].verses = h.verses
    /\ \A i \in 1..Len(disk.output.data.books) :
         \A j \in 1..Len(disk.output.data.books[i].chapters) :
           \E k \in 1..Len(history.chapters) :
             /\ history.chapters[k].book = disk.output.data.books[i].number
             /\ history.chapters[k].chapter = disk.output.data.books[i].chapters[j].number
             /\ history.chapters[k].verses # <<>>

\* C13: a run over two books is done whose first chapter failed and whose
\* later chapters, of the same book and of the next, gave verses
RunDoneAfterFailedChapter ==
  /\ pc = "done"
  /\ Len(history.chapters) >= 3
  /\ history.chapters[1].verses = <<>>
  /\ \E k \in 2..Len(history.chapters) :
       history.chapters[k].book = history.chapters[1].book /\ history.chapters[k].verses # <<>>
  /\ \E k \in 2..Len(history.chapters) :
       history.chapters[k].book # history.chapters[1].book /\ history.chapters[k].verses # <<>>

\* the document a successful run of retry_chapter found, and the one it left
Before == prior.output.data

After == disk.output.data

\* C14: after a patch of a document that had no book of the target number, the
\* document on disk has exactly one book of that number, with the name and
\* abbreviation of BOOKS and the patched chapter alone; the other books are
\* those it had, and the books are strictly ascending if they were before.
PatchCreatesBook ==
  (pc = "done" /\ ~HasNumber(Before.books, job.book_number)) =>
    LET places == {i \in 1..Len(After.books) : After.books[i].number = job.book_number}
    IN /\ Cardinality(places) = 1
       /\ \A i \in places :
            /\ After.books[i] =
                 [number |-> job.book_number,
                  name |-> BOOKS[job.book_number].name,
                  abbreviation |-> BOOKS[job.book_number].abbr,
                  chapters |-> <<[number |-> job.chapter_number, verses |-> job.verses]>>]
            /\ SubSeq(After.books, 1, i - 1) \o SubSeq(After.books, i + 1, Len(After.books))
                 = Before.books
       /\ StrictlyAscending(Before.books) => StrictlyAscending(After.books)

\* C14: Genesis was patched into the document of main.py, which held its
\* second book only, and stands before it
BookCreatedInFront ==
  /\ pc = "done"
  /\ job.book_number = 1
  /\ prior.output = Complete(MainDocument)
  /\ Len(After.books) = 2
  /\ After.books[1].number = 1
  /\ After.books[2] = MainDocument.books[1]

\* C15: a second successful patch of the same chapter with the same verses,
\* with no other patch in between, leaves the file as the first left it.
PatchIdempotent ==
  (/\ pc = "done"
   /\ Len(history) >= 2
   /\ history[Len(history)] = history[Len(history) - 1])
    => (disk.output = prior.output)

\* C15: the first patch created book 2 and its chapter 1 in a document without
\* books, and the second patch was the same
SamePatchTwice ==
  /\ pc = "done"
  /\ Len(history) = 2
  /\ history[1] = history[2]
  /\ history[1] = [book_number |-> 2, chapter_number |-> 1, verses |-> AttemptVerses(PageAB)]
  /\ After = PatchDocument(EmptyDocument, 2, 1, AttemptVerses(PageAB))

\* C16: after a patch of a document that carries total_books and total_verses,
\* the document on disk has them equal to the number of its books and verses.
PatchKeepsTotals ==
  (pc = "done" /\ {"total_books", "total_verses"} \subseteq DOMAIN Before)
    => HasTotals(After)

\* C17: every conversion gives a document whose total_books and total_verses
\* are the number of its books and of its verses, whatever the total fields of
\* the input are, and also when the input has none.
ConvertedTotalsRecomputed ==
  (pc # "convert") => (pc = "converted" /\ HasTotals(output_data))

\* the numbers of a sequence of books, chapters or verses
Numbers(seq) == [i \in 1..Len(seq) |-> seq[i].number]

\* C18: the converted document has the book, chapter and verse numbers of the
\* input, its version code is the input's followed by "-SC", and the input is
\* as it was.
ConversionChangesOnlyText ==
  /\ arg = prior
  /\ (pc = "converted") =>
       /\ output_data.version.code = arg.version.code \o "-SC"
       /\ Numbers(output_data.books) = Numbers(arg.books)
       /\ \A i \in 1..Len(arg.books) :
            /\ Numbers(output_data.books[i].chapters) = Numbers(arg.books[i].chapters)
            /\ \A j \in 1..Len(arg.books[i].chapters) :
                 Numbers(output_data.books[i].chapters[j].verses)
                   = Numbers(arg.books[i].chapters[j].verses)

\* C18: two books were converted and a verse text changed
TwoBooksConverted ==
  /\ pc = "converted"
  /\ Len(arg.books) = 2
  /\ output_data.version.code = "CUNP89-SC"
  /\ \E j \in 1..Len(arg.books[2].chapters) :
       output_data.books[2].chapters[j].verses[1].text # arg.books[2].chapters[j].verses[1].text

\* C19: a chapter is recorded as failed only after max_retries attempts.
FailedOnlyAfterRetries ==
  \A k \in 1..Len(history.failed) : history.failed[k].attempts = max_retries

NoEmptyChapter(data) ==
  \A i \in 1..Len(data.books) :
    \A j \in 1..Len(data.books[i].chapters) :
      data.books[i].chapters[j].verses # <<>>

\* C20: no document that a script has written holds a chapter without verses.
WrittenChaptersHaveVerses ==
  \A k \in 1..Len(history.checkpoints) : NoEmptyChapter(history.checkpoints[k])

\* the references of an unknown book and the references without chapter:verse
UnknownBookReferences == {Reference(Nonexistent, c, v) : c \in RefNums, v \in RefNums}

MalformedReferences ==
  {CutReference(name, c, cut) : name \in RefNames, c \in RefNums, cut \in Cuts}

\* C21: the outcome parse_book_name gives for a reference with a chapter:verse
\* pattern and an unknown book name is given for no reference whose
\* chapter:verse pattern is absent: the two failures are distinguishable.
FailuresDistinguishable ==
  (pc = "parsed" /\ arg \in UnknownBookReferences) =>
    \A m \in MalformedReferences : parse_book_name(m) # ret[1]

\* a line of the text that parse_kjv_text dropped for its reference or its book
DroppedLine(raw) ==
  \/ ParseLine(raw).kind = "unknown"
  \/ ParseLine(raw).kind = "skip" /\ ParseLine(raw).why = "reference"

\* a log entry that names the reference of the line
Identifies(entry, raw) ==
  LET line == Strip(raw)
      tab == Min({i \in 1..Len(line) : line[i] = "\t"})
  IN entry.reference = Strip(SubSeq(line, 1, tab - 1))

\* C22: when the run of parse_kjv_text has ended, every line it dropped for a
\* malformed reference or an unknown book has a log entry that identifies it.
EveryDropLogged ==
  (job.script = "kjv" /\ pc \in {"done", "failed", "interrupted"}) =>
    \A i \in 1..Len(stream) :
      DroppedLine(stream[i]) =>
        \E k \in 1..Len(history.log) : Identifies(history.log[k], stream[i])

\* the lines of an unknown book do have their warning in the log
UnknownBookLogged ==
  (job.script = "kjv" /\ pc \in {"done", "failed", "interrupted"}) =>
    \A i \in 1..Len(stream) :
      (ParseLine(stream[i]).kind = "unknown") =>
        \E k \in 1..Len(history.log) : Identifies(history.log[k], stream[i])

\* C23: in the finished BOOK_NAME_MAP the lowercased full name of each of the
\* 66 books, the name without its spaces and, for a numeral-led name, the
\* spaced and unspaced numeral+name forms all resolve to the book's own number.
AliasFormsResolveToOwnBook ==
  (job.script = "table" /\ pc = "found") => (ret[1] = BOOKS[job.book].number)

\* C23: "song of solomon", generated for book 22 and assigned again by the
\* special cases, is looked up
OverriddenAliasResolved ==
  /\ pc = "found"
  /\ job.book = 22 /\ job.form = "full"
  /\ \E i \in 1..Len(SpecialCases) : SpecialCases[i][1] = arg
  /\ ret = <<22>>

\* the entries of a list of books or chapters with another number, in order
Except(seq, number) == SelectSeq(seq, LAMBDA x : x.number # number)

\* C24: a successful patch of (book b, chapter c) leaves the version and every
\* other field of the document beside the books, every book other than b, the
\* number, name and abbreviation of an existing book b and every chapter of b
\* other than c as they were, in the order they had.
PatchFrame ==
  (job.script = "retry" /\ pc = "done") =>
    LET b == job.book_number
        c == job.chapter_number
    IN /\ DOMAIN After = DOMAIN Before
       /\ \A f \in DOMAIN Before \ {"books"} : After[f] = Before[f]
       /\ Except(After.books, b) = Except(Before.books, b)
       /\ HasNumber(Before.books, b) =>
            LET old == Before.books[FirstIndex(Before.books, b)]
                new == After.books[FirstIndex(After.books, b)]
            IN /\ new.number = old.number
               /\ new.name = old.name
               /\ new.abbreviation = old.abbreviation
               /\ Except(new.chapters, c) = Except(old.chapters, c)

\* C24: a chapter of Genesis was replaced in a document that held another
\* chapter of Genesis and another book
ChapterReplacedBesideOthers ==
  /\ job.script = "retry" /\ pc = "done"
  /\ Len(Before.books) = 2
  /\ job.book_number = 1
  /\ HasNumber(Before.books, 1)
  /\ HasNumber(Before.books[FirstIndex(Before.books, 1)].chapters, job.chapter_number)
  /\ Len(Before.books[FirstIndex(Before.books, 1)].chapters) = 2
  /\ After # Before

\* every verse of the document has a text, without spaces at its ends
TextsTrimmed(data) ==
  \A i \in 1..Len(data.books) :
    \A j \in 1..Len(data.books[i].chapters) :
      \A k \in 1..Len(data.books[i].chapters[j].verses) :
        LET text == data.books[i].chapters[j].verses[k].text
        IN text # <<>> /\ text = Strip(text)

\* C25: every verse of a document written by fetch_kjv_txt.py, fetch_bible or
\* fetch_all_books has a non-empty text with no leading or trailing whitespace.
VerseTextsNonEmpty ==
  \A k \in 1..Len(history.checkpoints) : TextsTrimmed(history.checkpoints[k])

\* C26: a run in which migrate_vectors failed (loading, embedding or
\* inserting raised) sets no vector_update_logs row to 'completed'.
CompletedOnlyAfterMigration ==
  \A p \in DOMAIN pc : job.run[p].failed => (job.run[p].completed = {})

\* C27: with two runs on the same database, bible_vectors never holds more
\* than one row for a verse_id, and when both have run to their end without
\* an error it holds exactly one row for every verse.
OneRowPerVerse ==
  (Cardinality(DOMAIN pc) = 2) =>
    /\ \A id \in DOMAIN disk.bible_vectors : disk.bible_vectors[id] <= 1
    /\ (\A p \in DOMAIN pc :
          pc[p] = "closed" /\ job.run[p].should_run /\ ~job.run[p].failed)
         => (disk.bible_vectors = AllVectors(disk.verses))

\* one row for each of the first k verses and none for the others
FirstVectors(total, k) == [id \in 1..total |-> IF id <= k THEN 1 ELSE 0]

\* C30: in a single run, once the table is truncated, every committed state
\* of bible_vectors holds one row for each of the first k verses and no other
\* row, k a multiple of BATCH_SIZE or the number of verses; after a failure
\* the rows of the batches committed before it remain, and the vectors the
\* table held before the run are not back.
CommittedPrefix ==
  (DOMAIN pc = {1} /\ pc[1] \in {"batch", "insert", "commit", "migrated"}) =>
    /\ \E k \in 0..disk.verses :
         /\ (k % BATCH_SIZE = 0 \/ k = disk.verses)
         /\ disk.bible_vectors = FirstVectors(disk.verses, k)
    /\ (pc[1] = "migrated" /\ job.run[1].failed) =>
         /\ disk.bible_vectors = FirstVectors(disk.verses, job.run[1].i)
         /\ disk.bible_vectors # AllVectors(disk.verses)

\* C30: the second batch failed in a table that held a vector for every verse
SecondBatchFailed ==
  /\ DOMAIN pc = {1}
  /\ pc[1] = "migrated"
  /\ job.run[1].failed
  /\ job.run[1].i = BATCH_SIZE
  /\ disk.verses > BATCH_SIZE
  /\ prior.bible_vectors = AllVectors(disk.verses)
  /\ disk.bible_vectors = FirstVectors(disk.verses, BATCH_SIZE)

\* with a unique index on verse_id the two runs leave one row per verse
OneRowPerVerseUnderIndex == disk.unique_verse_id => OneRowPerVerse

\* the books fetch_book has returned so far that have a chapter, in order
BooksWithChapters(fetched) == SelectSeq(fetched, LAMBDA b : b.chapters # <<>>)

\* C28: the k-th checkpoint of a fetch_bible run holds only books numbered in
\* [start_from, end_at], in strictly ascending order, and exactly the first k
\* books of the range that have a chapter, as fetched; the file a checkpoint
\* has replaced holds that checkpoint and nothing of the file it found.
CheckpointHoldsRangeOnly ==
  (job.script = "bst") =>
    /\ \A k \in 1..Len(history.checkpoints) :
         LET books == history.checkpoints[k].books
         IN /\ \A i \in 1..Len(books) :
                 job.start_from <= books[i].number /\ books[i].number <= job.end_at
            /\ StrictlyAscending(books)
            /\ books = BooksWithChapters(SubSeq(history.fetched, 1, k))
    /\ (history.checkpoints # <<>> /\ Loadable(disk.output)) =>
         (disk.output.data = history.checkpoints[Len(history.checkpoints)])

\* C28: the run of the range [1, 1] is done on a file that held book 2, and
\* the file holds book 1 alone
OldBookGone ==
  /\ job.script = "bst" /\ pc = "done"
  /\ job.start_from = 1 /\ job.end_at = 1
  /\ prior.output = Complete(OldDocument)
  /\ Len(disk.output.data.books) = 1
  /\ disk.output.data.books[1].number = 1

\* C29: on a document that carries total_books and total_verses, what one of
\* convert_bible_data (convert_to_simplified.py) and convert_to_simplified
\* (main.py) has produced is what the other produces from the same document.
ConvertersAgree ==
  (job.script = "convert" /\ pc = "converted") =>
    (output_data = IF job.tool = "main" THEN convert_bible_data(arg)
                   ELSE convert_to_simplified(arg))

\* C29: convert_bible_data has converted a document of two books with totals
TwoBooksBothWays ==
  /\ job.script = "convert" /\ pc = "converted"
  /\ job.tool = "file"
  /\ Len(arg.books) = 2
  /\ arg.total_books = 2
  /\ output_data.books # arg.books
  /\ output_data = convert_to_simplified(arg)
====
